---- MODULE Spec2Model ----
(***************************************************************************)
(* Model of the kubeai-autoscaler control loop: the reconciler of          *)
(* pkg/controller (algorithm registry, conditions, events), the older      *)
(* reconciler of controller/ (locked cooldown ledger, idempotent replica   *)
(* write), the three built-in scaling algorithms and the metric-to-ratio   *)
(* translation.                                                            *)
(*                                                                         *)
(* Floating-point ratios are modelled as exact fractions [n, d]; d = 0     *)
(* stands for the +Inf or NaN a division by 0.0 produces.                  *)
(* No summary ratio of the model lies exactly on 1 - tolerance or on       *)
(* 1 + tolerance for a tolerance above 0, where float64 rounding decides.  *)
(* Replica counts, targets and measurements stay far below 2^31 within the *)
(* bounds, so the only int32 conversion that leaves its range is the one   *)
(* of a non-finite product; its result is an input of the pass.            *)
(* The event recorder of pkg/controller is present (a nil recorder records *)
(* nothing).                                                               *)
(***************************************************************************)
EXTENDS Integers, Sequences, FiniteSets, TLC

VARIABLES
    binary,         \* which controller runs: "pkg" (cmd/controller) or "legacy" (controller/)
    policy,         \* the policy object stored under each key, or NoPolicy
    status,         \* the stored status of each policy
    target,         \* the replica field of the target workload
    LastScaleTime,  \* the cooldown ledger of pkg/controller
    lastScaleTime,  \* the cooldown ledger of controller/
    registry,       \* the reconciler's AlgorithmRegistry
    now,            \* the clock, in seconds
    events,         \* UnknownAlgorithm events recorded per policy
    written,        \* when the last replica update of each policy succeeded
    passes,         \* passes run so far
    lastPass,       \* what the pass that ended in the last step did
    lastRegister,   \* what the Register call of the last step was given and returned
    webhook,        \* the policy object in admission and how far it got
    threads,        \* goroutines inside Register or inside a pass, and the locks they hold
    lastCalculate   \* what the Calculate call of the last step was given and returned

vars == <<binary, policy, status, target, LastScaleTime, lastScaleTime, registry, now,
          events, written, passes, lastPass, lastRegister, webhook, threads, lastCalculate>>

----------------------------------------------------------------------------
(* Bounds of the model *)

\* number of clock steps the model lets pass
MaxTicks == 2

\* seconds that pass in one clock step
TickSeconds == 150

\* largest replica count the target starts with
MaxStartReplicas == 3

\* passes in one behaviour
MaxPasses == 3

\* passes in one behaviour of the algorithm specification
MaxAlgorithmPasses == 1

\* passes in one behaviour of the two-policy specification
MaxSharedPasses == 2

\* passes of the specification with the example plugin
MaxPluginPasses == 2

\* passes of the specification with int32 values far from 0
MaxWidePasses == 2

\* passes of the specification with policy updates and deletions
MaxLifecyclePasses == 2

\* passes of the specification with queue depth as the only signal
MaxQueuePasses == 2

\* the largest currentReplicas handed to Calculate
MaxCalculateReplicas == 5

\* names a registry holds before Register calls stop
MaxRegistered == 5

\* events counts up to MaxEvents
MaxEvents == 2

\* the replica bounds of the objects sent to admission run up to this
MaxWebhookReplicas == 2

\* the admissions (one create, then updates) one object goes through
MaxAdmissions == 2

----------------------------------------------------------------------------
(* Program constants *)

DefaultCooldownPeriod == 300

DefaultRequeueInterval == 30

DefaultAlgorithmName == "MaxRatio"

DefaultTolerance == [n |-> 1, d |-> 10]

ConditionTypeReady == "Ready"

ConditionTypeScaling == "Scaling"

ConditionTypeAlgorithmValid == "AlgorithmValid"

ReasonUnknownAlgorithm == "UnknownAlgorithm"

\* the replica field of a workload that does not set it
NilReplicas == -1

\* no entry for the policy in the cooldown ledger
NoEntry == -1

----------------------------------------------------------------------------
(* Fractions *)

Frac(a, b) == [n |-> a, d |-> b]

One == Frac(1, 1)

\* a > b for fractions with positive denominators
FracGT(a, b) == a.n * b.d > b.n * a.d

FracGE(a, b) == a.n * b.d >= b.n * a.d

FracLE(a, b) == a.n * b.d <= b.n * a.d

FracAdd(a, b) == Frac(a.n * b.d + b.n * a.d, a.d * b.d)

FracSub(a, b) == Frac(a.n * b.d - b.n * a.d, a.d * b.d)

\* a scaled by the integer w
FracScale(a, w) == Frac(a.n * w, a.d)

\* a divided by the positive integer k
FracDivInt(a, k) == Frac(a.n, a.d * k)

FracMul(a, b) == Frac(a.n * b.n, a.d * b.d)

RECURSIVE GCD(_, _)
GCD(a, b) == IF b = 0 THEN a ELSE GCD(b, a % b)

\* the same value in lowest terms; keeps the numbers of repeated smoothing small
FracReduce(a) ==
    IF a.d = 0 \/ a.n = 0 THEN a
    ELSE LET g == GCD(IF a.n < 0 THEN -a.n ELSE a.n, a.d) IN Frac(a.n \div g, a.d \div g)

\* math.Ceil of a finite fraction
CeilFrac(a) == -((-a.n) \div a.d)

\* int32 arithmetic on 16-bit halves, so that no intermediate value needs
\* more than 32 bits
Half == 65536

Halves(a) == [hi |-> a \div Half, lo |-> a % Half]

\* x + y modulo 2^32
AddHalves(x, y) ==
    [hi |-> (x.hi + y.hi + ((x.lo + y.lo) \div Half)) % Half, lo |-> (x.lo + y.lo) % Half]

RECURSIVE MulHalves(_, _)
\* a * b modulo 2^32 for b >= 0, by doubling
MulHalves(a, b) ==
    IF b = 0 THEN Halves(0)
    ELSE LET h == MulHalves(a, b \div 2)
             d == AddHalves(h, h)
         IN  IF b % 2 = 1 THEN AddHalves(d, a) ELSE d

\* the int32 product a * b of two non-negative int32 values: the low 32 bits
\* of the product read as a two's complement number
Mul32(a, b) ==
    LET m == MulHalves(Halves(a), b)
    IN  IF m.hi >= Half \div 2 THEN (m.hi - Half) * Half + m.lo ELSE m.hi * Half + m.lo

\* float64(a) / float64(b) as a fraction whose denominator is not negative
FracDiv(a, b) == IF b < 0 THEN Frac(-a, -b) ELSE Frac(a, b)

\* a division by 0.0 yields +Inf (n > 0, d = 0) or NaN (n = 0, d = 0)
IsFinite(a) == a.d # 0

\* int32(math.Ceil(float64(c) * r)); conv is what the conversion yields
\* when the product is NaN or infinite (implementation-dependent in Go)
CeilMul(c, r, conv) == IF IsFinite(r) THEN -((-(c * r.n)) \div r.d) ELSE conv

----------------------------------------------------------------------------
(* Built-in algorithms: pkg/scaling/algorithm.go *)

\* Clamp without its second if
ClampBroken(d, lo, hi) == IF d < lo THEN lo ELSE d

\* the two consecutive ifs every exit of ComputeScale applies
Clamp(d, lo, hi) ==
    LET d1 == IF d < lo THEN lo ELSE d
    IN  IF d1 > hi THEN hi ELSE d1

Result(d, reason) == [DesiredReplicas |-> d, Reason |-> reason]

\* the band without its two ends
WithinToleranceStrict(r, tol) ==
    /\ IsFinite(r)
    /\ FracGT(r, FracSub(One, tol))
    /\ FracGT(FracAdd(One, tol), r)

\* ratio >= (1-tolerance) && ratio <= (1+tolerance); every comparison with
\* NaN is false and +Inf is above every bound
WithinTolerance(r, tol) ==
    /\ IsFinite(r)
    /\ FracGE(r, FracSub(One, tol))
    /\ FracLE(r, FracAdd(One, tol))

RECURSIVE MaxOf(_, _)
\* the loop "if ratio > maxRatio { maxRatio = ratio }" started at acc
MaxOf(ratios, acc) ==
    IF ratios = <<>> THEN acc
    ELSE MaxOf(Tail(ratios), IF FracGT(Head(ratios), acc) THEN Head(ratios) ELSE acc)

RECURSIVE SumOf(_)
SumOf(ratios) ==
    IF ratios = <<>> THEN Frac(0, 1)
    ELSE FracAdd(Head(ratios), SumOf(Tail(ratios)))

\* a position without a weight of its own weighs nothing
WeightAtZeroDefault(weights, i) == IF i <= Len(weights) THEN weights[i] ELSE 0

\* weight of position i: a.Weights[i] when i < len(a.Weights), else 1.0
WeightAt(weights, i) == IF i <= Len(weights) THEN weights[i] ELSE 1

RECURSIVE WeightedSumFrom(_, _, _)
WeightedSumFrom(ratios, weights, i) ==
    IF i > Len(ratios) THEN Frac(0, 1)
    ELSE FracAdd(FracScale(ratios[i], WeightAt(weights, i)),
                 WeightedSumFrom(ratios, weights, i + 1))

RECURSIVE TotalWeightFrom(_, _, _)
TotalWeightFrom(ratios, weights, i) ==
    IF i > Len(ratios) THEN 0
    ELSE WeightAt(weights, i) + TotalWeightFrom(ratios, weights, i + 1)

\* the largest ratio, without the floor of 1.0
MaxRatioSummaryNoFloor(ratios) == MaxOf(Tail(ratios), Head(ratios))

\* maxRatio := 1.0; for ... if ratio > maxRatio
MaxRatioSummary(ratios) == MaxOf(ratios, One)

\* the sum of the ratios, not divided by their number
AverageRatioSummaryNoDivide(ratios) == SumOf(ratios)

\* sum / float64(len(input.MetricRatios))
AverageRatioSummary(ratios) == FracDivInt(SumOf(ratios), Len(ratios))

\* weights bound as if the first signal always held position 0: ratio i is
\* weighed by weights[i+1]
WeightedRatioSummaryShifted(ratios, weights) ==
    LET shifted == IF weights = <<>> THEN <<>> ELSE Tail(weights)
    IN  FracDivInt(WeightedSumFrom(ratios, shifted, 1), TotalWeightFrom(ratios, weights, 1))

WeightedRatioSummary(ratios, weights) ==
    FracDivInt(WeightedSumFrom(ratios, weights, 1), TotalWeightFrom(ratios, weights, 1))

\* the part of ComputeScale the three algorithms share once the summary
\* ratio is known
ScaleBySummary(input, r, scaledReason, conv) ==
    IF WithinTolerance(r, input.Tolerance)
    THEN Result(Clamp(input.CurrentReplicas, input.MinReplicas, input.MaxReplicas),
                "within tolerance")
    ELSE Result(Clamp(CeilMul(input.CurrentReplicas, r, conv), input.MinReplicas, input.MaxReplicas),
                scaledReason)

\* the exit for an empty ratio list without the two ifs
NoMetricsUnclamped(input) == Result(input.CurrentReplicas, "no metrics available")

\* the exit for an empty ratio list
NoMetrics(input) ==
    Result(Clamp(input.CurrentReplicas, input.MinReplicas, input.MaxReplicas),
           "no metrics available")

MaxRatioComputeScale(input, conv) ==
    IF Len(input.MetricRatios) = 0 THEN NoMetrics(input)
    ELSE ScaleBySummary(input, MaxRatioSummary(input.MetricRatios),
                        "scaled based on max ratio", conv)

AverageRatioComputeScale(input, conv) ==
    IF Len(input.MetricRatios) = 0 THEN NoMetrics(input)
    ELSE ScaleBySummary(input, AverageRatioSummary(input.MetricRatios),
                        "scaled based on average ratio", conv)

WeightedRatioComputeScale(a, input, conv) ==
    IF Len(input.MetricRatios) = 0 THEN NoMetrics(input)
    ELSE IF TotalWeightFrom(input.MetricRatios, a.Weights, 1) = 0
    THEN Result(Clamp(input.CurrentReplicas, input.MinReplicas, input.MaxReplicas),
                "total weight is zero")
    ELSE ScaleBySummary(input, WeightedRatioSummary(input.MetricRatios, a.Weights),
                        "scaled based on weighted ratio", conv)

\* the part of the legacy Calculate the three algorithms share once the
\* summary ratio is known; the tolerance is the one the instance was built
\* with
CalculateBySummary(a, input, r, conv) ==
    IF WithinTolerance(r, a.Tolerance) THEN input.CurrentReplicas
    ELSE Clamp(CeilMul(input.CurrentReplicas, r, conv), input.MinReplicas, input.MaxReplicas)

MaxRatioCalculate(a, input, conv) ==
    IF Len(input.MetricRatios) = 0 THEN input.CurrentReplicas
    ELSE CalculateBySummary(a, input, MaxRatioSummary(input.MetricRatios), conv)

AverageRatioCalculate(a, input, conv) ==
    IF Len(input.MetricRatios) = 0 THEN input.CurrentReplicas
    ELSE CalculateBySummary(a, input, AverageRatioSummary(input.MetricRatios), conv)

WeightedRatioCalculate(a, input, conv) ==
    IF Len(input.MetricRatios) = 0 THEN input.CurrentReplicas
    ELSE IF TotalWeightFrom(input.MetricRatios, a.Weights, 1) = 0 THEN input.CurrentReplicas
    ELSE CalculateBySummary(a, input, WeightedRatioSummary(input.MetricRatios, a.Weights), conv)

----------------------------------------------------------------------------
(* Example plugin algorithm: examples/custom-algorithm CappedSmoothRatio *)

\* the exported Algorithm value; smoothedRatios starts as a nil map
CappedSmoothRatioInstance ==
    [Name                |-> "CappedSmoothRatio",
     Tolerance           |-> Frac(1, 10),
     Weights             |-> <<>>,
     SmoothingFactor     |-> Frac(3, 10),
     MaxScaleUpPercent   |-> Frac(1, 2),
     MaxScaleDownPercent |-> Frac(1, 4),
     smoothedRatios      |-> <<>>]

\* policyKey: namespace/name of the policy
policyKey(input) ==
    IF input.PolicyNamespace # "" THEN input.PolicyNamespace \o "/" \o input.PolicyName
    ELSE input.PolicyName

\* alpha * current + (1 - alpha) * previous
Smooth(alpha, current, previous) ==
    FracReduce(FracAdd(FracMul(alpha, current), FracMul(FracSub(One, alpha), previous)))

\* int32(math.Ceil(cappedDesired)) of the two capped branches; math.Min and
\* math.Max return NaN when the uncapped product is NaN
CappedDesired(a, currentReplicas, smoothedRatio, conv) ==
    LET c        == Frac(currentReplicas, 1)
        uncapped == FracMul(c, smoothedRatio)
        up       == FracAdd(c, FracMul(c, a.MaxScaleUpPercent))
        down     == FracSub(c, FracMul(c, a.MaxScaleDownPercent))
    IN  IF ~IsFinite(smoothedRatio)
        THEN IF smoothedRatio.n > 0 THEN CeilFrac(up) ELSE conv
        ELSE IF FracGT(smoothedRatio, One)
        THEN CeilFrac(IF FracLE(uncapped, up) THEN uncapped ELSE up)
        ELSE CeilFrac(IF FracGE(uncapped, down) THEN uncapped ELSE down)

\* CappedSmoothRatioAlgorithm.ComputeScale; the result carries the map the
\* call leaves in the instance
CappedSmoothRatioComputeScale(a, input, conv) ==
    LET tolerance       == IF input.Tolerance.n = 0 THEN a.Tolerance ELSE input.Tolerance
        currentMaxRatio == MaxOf(input.MetricRatios, One)
        key             == policyKey(input)
        exists          == key \in DOMAIN a.smoothedRatios
        smoothedRatio   == IF ~exists THEN FracReduce(currentMaxRatio)
                           ELSE Smooth(a.SmoothingFactor, currentMaxRatio,
                                       a.smoothedRatios[key])
        stored          == (key :> smoothedRatio) @@ a.smoothedRatios
    IN  IF Len(input.MetricRatios) = 0
        THEN [DesiredReplicas |-> input.CurrentReplicas,
              Reason          |-> "no metrics available",
              smoothedRatios  |-> a.smoothedRatios]
        ELSE IF WithinTolerance(smoothedRatio, tolerance)
        THEN [DesiredReplicas |-> input.CurrentReplicas,
              Reason          |-> "within tolerance after smoothing",
              smoothedRatios  |-> stored]
        ELSE [DesiredReplicas |-> Clamp(CappedDesired(a, input.CurrentReplicas,
                                                      smoothedRatio, conv),
                                        input.MinReplicas, input.MaxReplicas),
              Reason          |-> "scaled with capped smoothing",
              smoothedRatios  |-> stored]

----------------------------------------------------------------------------
(* Dispatch of ComputeScale *)

\* a ComputeScale that reads the tolerance of the instance when the input
\* carries tolerance 0
ComputeScaleEmbeddedTolerance(a, input, conv) ==
    LET in == [input EXCEPT !.Tolerance = IF @.n = 0 THEN a.Tolerance ELSE @]
    IN  IF a.Name = "MaxRatio" THEN MaxRatioComputeScale(in, conv)
        ELSE IF a.Name = "AverageRatio" THEN AverageRatioComputeScale(in, conv)
        ELSE IF a.Name = "CappedSmoothRatio" THEN CappedSmoothRatioComputeScale(a, in, conv)
        ELSE WeightedRatioComputeScale(a, in, conv)

\* dynamic dispatch of algorithm.ComputeScale on the instance's type; no
\* ComputeScale reads the tolerance its instance was built with
ComputeScale(a, input, conv) ==
    IF a.Name = "MaxRatio" THEN MaxRatioComputeScale(input, conv)
    ELSE IF a.Name = "AverageRatio" THEN AverageRatioComputeScale(input, conv)
    ELSE IF a.Name = "CappedSmoothRatio" THEN CappedSmoothRatioComputeScale(a, input, conv)
    ELSE WeightedRatioComputeScale(a, input, conv)

\* dynamic dispatch of the legacy Algorithm.Calculate
Calculate(a, input, conv) ==
    IF a.Name = "MaxRatio" THEN MaxRatioCalculate(a, input, conv)
    ELSE IF a.Name = "AverageRatio" THEN AverageRatioCalculate(a, input, conv)
    ELSE WeightedRatioCalculate(a, input, conv)

----------------------------------------------------------------------------
(* Policies: api/v1alpha1 AIInferenceAutoscalerPolicySpec *)

\* an optional block that is a nil pointer has Set = FALSE
NoLatency == [Set |-> FALSE, Enabled |-> FALSE, TargetP99Ms |-> 0, TargetP95Ms |-> 0]

NoGPU == [Set |-> FALSE, Enabled |-> FALSE, TargetPercentage |-> 0]

NoQueue == [Set |-> FALSE, Enabled |-> FALSE, TargetDepth |-> 0]

\* InManifest records whether the manifest of the policy gave a tolerance;
\* the decoded object has no such field and the controller never reads it
NoAlgorithm ==
    [Set |-> FALSE, Name |-> "", Tolerance |-> Frac(0, 1), Weights |-> <<>>,
     InManifest |-> FALSE]

Latency(enabled, p99, p95) ==
    [Set |-> TRUE, Enabled |-> enabled, TargetP99Ms |-> p99, TargetP95Ms |-> p95]

GPU(enabled, pct) == [Set |-> TRUE, Enabled |-> enabled, TargetPercentage |-> pct]

Queue(enabled, depth) == [Set |-> TRUE, Enabled |-> enabled, TargetDepth |-> depth]

Algorithm(name, tol, weights) ==
    [Set |-> TRUE, Name |-> name, Tolerance |-> tol, Weights |-> weights,
     InManifest |-> TRUE]

\* an algorithm block whose manifest gives no tolerance: decoding leaves the
\* float64 field at its zero value
AlgorithmNoTolerance(name, weights) ==
    [Set |-> TRUE, Name |-> name, Tolerance |-> Frac(0, 1), Weights |-> weights,
     InManifest |-> FALSE]

Policy(kind, lo, hi, cooldown, lat, gpu, queue, alg) ==
    [Kind |-> kind, MinReplicas |-> lo, MaxReplicas |-> hi, CooldownPeriod |-> cooldown,
     Latency |-> lat, GPUUtilization |-> gpu, RequestQueueDepth |-> queue, Algorithm |-> alg]

\* the policies the model reconciles
PolicySpecs ==
    { \* latency only, default algorithm, minReplicas 0, default cooldown
      Policy("Deployment", 0, 4, 0, Latency(TRUE, 100, 0), NoGPU, NoQueue, NoAlgorithm),
      \* two latency targets and GPU, AverageRatio, short cooldown
      Policy("StatefulSet", 2, 3, 150, Latency(TRUE, 100, 100), GPU(TRUE, 80), NoQueue,
             Algorithm("AverageRatio", Frac(1, 10), <<>>)),
      \* latency, disabled GPU, queue depth; WeightedRatio with its own weights
      Policy("Deployment", 1, 4, 0, Latency(TRUE, 100, 0), GPU(FALSE, 80), Queue(TRUE, 2),
             Algorithm("WeightedRatio", Frac(0, 1), <<0, 2>>)),
      \* WeightedRatio without weights of its own
      Policy("Deployment", 1, 3, 150, Latency(TRUE, 100, 0), GPU(TRUE, 80), NoQueue,
             Algorithm("WeightedRatio", Frac(1, 10), <<>>)),
      \* an algorithm name nobody registered
      Policy("Deployment", 1, 4, 150, Latency(TRUE, 100, 0), NoGPU, NoQueue,
             Algorithm("NotReal", Frac(1, 10), <<>>)) }

\* the key nobody stored a policy under
NoPolicy == Policy("", 0, 0, 0, NoLatency, NoGPU, NoQueue, NoAlgorithm)

Keys == {"default/a", "default/b"}

\* metadata.namespace and metadata.name of the policy stored under a key
ObjectMeta ==
    ("default/a" :> [Namespace |-> "default", Name |-> "a"]) @@
    ("default/b" :> [Namespace |-> "default", Name |-> "b"])

----------------------------------------------------------------------------
(* Metrics source: what one pass's fetches return *)

\* the fetch returned an error
FetchErr == -1

\* GetLatencyP99 / GetLatencyP95 results, in microseconds (the client returns
\* float seconds)
P99Values == {FetchErr, 50000, 200000}

P95Values == {FetchErr, 100000}

\* GetGPUUtilization results, in tenths of a percent (the client returns a
\* float percentage)
GPUValues == {FetchErr, 1605}

\* GetQueueDepth results
QueueValues == {FetchErr, 4}

\* a signal whose fetch the pass does not perform gets FetchErr
Outcomes == [p99 : P99Values, p95 : P95Values, gpu : GPUValues, queue : QueueValues]

NoMetricsYet ==
    [LatencyP99Ms |-> 0, LatencyP95Ms |-> 0, GPUUtilizationPercent |-> 0,
     RequestQueueDepth |-> 0]

FetchedP99(pol) ==
    pol.Latency.Set /\ pol.Latency.Enabled /\ pol.Latency.TargetP99Ms > 0

FetchedP95(pol) ==
    pol.Latency.Set /\ pol.Latency.Enabled /\ pol.Latency.TargetP95Ms > 0

FetchedGPU(pol) == pol.GPUUtilization.Set /\ pol.GPUUtilization.Enabled

FetchedQueue(pol) == pol.RequestQueueDepth.Set /\ pol.RequestQueueDepth.Enabled

\* fetchMetrics: a field stays 0 when its signal is not enabled or its fetch
\* fails; latency seconds become int32 milliseconds, the GPU percentage is
\* truncated to int32
fetchMetrics(pol, out) ==
    [LatencyP99Ms |->
        IF FetchedP99(pol) /\ out.p99 # FetchErr THEN out.p99 \div 1000 ELSE 0,
     LatencyP95Ms |->
        IF FetchedP95(pol) /\ out.p95 # FetchErr THEN out.p95 \div 1000 ELSE 0,
     GPUUtilizationPercent |->
        IF FetchedGPU(pol) /\ out.gpu # FetchErr THEN out.gpu \div 10 ELSE 0,
     RequestQueueDepth |->
        IF FetchedQueue(pol) /\ out.queue # FetchErr THEN out.queue ELSE 0]

\* buildMetricRatios without the "> 0" test on the latency and GPU
\* measurements
buildMetricRatiosNoPositiveCheck(pol, currentReplicas, cm) ==
    (IF pol.Latency.Set /\ pol.Latency.Enabled /\ pol.Latency.TargetP99Ms > 0
     THEN <<Frac(cm.LatencyP99Ms, pol.Latency.TargetP99Ms)>> ELSE <<>>)
    \o (IF pol.Latency.Set /\ pol.Latency.Enabled /\ pol.Latency.TargetP95Ms > 0
        THEN <<Frac(cm.LatencyP95Ms, pol.Latency.TargetP95Ms)>> ELSE <<>>)
    \o (IF pol.GPUUtilization.Set /\ pol.GPUUtilization.Enabled
           /\ pol.GPUUtilization.TargetPercentage > 0
        THEN <<Frac(cm.GPUUtilizationPercent, pol.GPUUtilization.TargetPercentage)>>
        ELSE <<>>)
    \o (IF pol.RequestQueueDepth.Set /\ pol.RequestQueueDepth.Enabled
           /\ pol.RequestQueueDepth.TargetDepth > 0 /\ cm.RequestQueueDepth > 0
        THEN <<FracDiv(cm.RequestQueueDepth,
                       Mul32(pol.RequestQueueDepth.TargetDepth, currentReplicas))>>
        ELSE <<>>)

\* buildMetricRatios: the ratios of the enabled signals whose target and
\* measurement are both positive, in the order P99, P95, GPU, queue depth
buildMetricRatios(pol, currentReplicas, cm) ==
    (IF pol.Latency.Set /\ pol.Latency.Enabled
        /\ pol.Latency.TargetP99Ms > 0 /\ cm.LatencyP99Ms > 0
     THEN <<Frac(cm.LatencyP99Ms, pol.Latency.TargetP99Ms)>> ELSE <<>>)
    \o (IF pol.Latency.Set /\ pol.Latency.Enabled
           /\ pol.Latency.TargetP95Ms > 0 /\ cm.LatencyP95Ms > 0
        THEN <<Frac(cm.LatencyP95Ms, pol.Latency.TargetP95Ms)>> ELSE <<>>)
    \o (IF pol.GPUUtilization.Set /\ pol.GPUUtilization.Enabled
           /\ pol.GPUUtilization.TargetPercentage > 0 /\ cm.GPUUtilizationPercent > 0
        THEN <<Frac(cm.GPUUtilizationPercent, pol.GPUUtilization.TargetPercentage)>>
        ELSE <<>>)
    \o (IF pol.RequestQueueDepth.Set /\ pol.RequestQueueDepth.Enabled
           /\ pol.RequestQueueDepth.TargetDepth > 0 /\ cm.RequestQueueDepth > 0
        THEN <<FracDiv(cm.RequestQueueDepth,
                       Mul32(pol.RequestQueueDepth.TargetDepth, currentReplicas))>>
        ELSE <<>>)

----------------------------------------------------------------------------
(* Algorithm registry: pkg/scaling/registry.go *)

Instance(name, weights) == [Name |-> name, Tolerance |-> DefaultTolerance, Weights |-> weights]

\* scaling.DefaultRegistry after init()
DefaultRegistry ==
    [name \in {"MaxRatio", "AverageRatio", "WeightedRatio"} |-> Instance(name, <<>>)]

\* a registry whose instances were built with tolerance 0.5 and whose
\* WeightedRatio was built with weights of its own
WeightedRegistry ==
    [name \in {"MaxRatio", "AverageRatio", "WeightedRatio"} |->
        [Instance(name, IF name = "WeightedRatio" THEN <<1, 3>> ELSE <<>>)
            EXCEPT !.Tolerance = Frac(1, 2)]]

Registries == {DefaultRegistry, WeightedRegistry}

\* the default registry after the example plugin was loaded and registered
PluginRegistry == ("CappedSmoothRatio" :> CappedSmoothRatioInstance) @@ DefaultRegistry

\* Registry.Has
Has(reg, name) == name \in DOMAIN reg

\* Registry.Get; only called on names the registry has
Get(reg, name) == reg[name]

----------------------------------------------------------------------------
(* calculateDesiredReplicas: pkg/controller/reconciler.go *)

\* SetWeights called on the registered instance itself
BindWeightsShared(reg, name, weights) ==
    IF name = "WeightedRatio" /\ Len(weights) > 0
    THEN [algorithm |-> [reg[name] EXCEPT !.Weights = weights],
          registry |-> [reg EXCEPT ![name].Weights = weights]]
    ELSE [algorithm |-> reg[name], registry |-> reg]

\* the weights of the policy are set on a copy of the registered
\* WeightedRatio instance; every other instance is used as registered
BindWeights(reg, name, weights) ==
    IF name = "WeightedRatio" /\ Len(weights) > 0
    THEN [algorithm |-> [reg[name] EXCEPT !.Weights = weights], registry |-> reg]
    ELSE [algorithm |-> reg[name], registry |-> reg]

\* minReplicas == 0 is read as 1
EffectiveMin(pol) == IF pol.MinReplicas = 0 THEN 1 ELSE pol.MinReplicas

\* a lookup failure that is never flagged
RequestedNotFoundNever(found, requestedName) == FALSE

\* requestedAlgorithmNotFound: the lookup failed and the policy named an
\* algorithm
RequestedNotFound(found, requestedName) == ~found /\ requestedName # ""

\* the tolerance of the algorithm block when the policy has one (the value of
\* its float64 field), DefaultTolerance otherwise
PolicyTolerance(pol) ==
    IF pol.Algorithm.Set THEN pol.Algorithm.Tolerance ELSE DefaultTolerance

\* the map a CappedSmoothRatio call left in its registered instance
StoreSmoothed(reg, name, result) ==
    IF name = "CappedSmoothRatio" /\ Has(reg, name)
    THEN [reg EXCEPT ![name].smoothedRatios = result.smoothedRatios]
    ELSE reg

calculateDesiredReplicas(reg, k, pol, currentReplicas, cm, conv) ==
    LET requestedName == IF pol.Algorithm.Set THEN pol.Algorithm.Name ELSE ""
        wanted        == IF requestedName # "" THEN requestedName ELSE DefaultAlgorithmName
        tolerance     == PolicyTolerance(pol)
        weights       == IF pol.Algorithm.Set THEN pol.Algorithm.Weights ELSE <<>>
        found         == Has(reg, wanted)
        notFound      == RequestedNotFound(found, requestedName)
        algorithmName == IF found THEN wanted ELSE DefaultAlgorithmName
        \* the configured registry first, then the global default registry
        source        == IF Has(reg, algorithmName) THEN reg ELSE DefaultRegistry
        available     == Has(source, algorithmName)
        bound         == BindWeights(source, algorithmName, weights)
        ratios        == buildMetricRatios(pol, currentReplicas, cm)
        input         == [CurrentReplicas |-> currentReplicas,
                          MinReplicas     |-> EffectiveMin(pol),
                          MaxReplicas     |-> pol.MaxReplicas,
                          MetricRatios    |-> ratios,
                          Tolerance       |-> tolerance,
                          PolicyName      |-> ObjectMeta[k].Name,
                          PolicyNamespace |-> ObjectMeta[k].Namespace]
        result        == ComputeScale(bound.algorithm, input, conv)
    IN  IF ~available
        THEN [desiredReplicas |-> currentReplicas, algorithmUsed |-> algorithmName,
              reason |-> "no algorithm available", notFound |-> notFound,
              requestedName |-> requestedName, ratios |-> <<>>, tolerance |-> tolerance,
              weights |-> <<>>, registry |-> reg]
        ELSE [desiredReplicas |-> result.DesiredReplicas, algorithmUsed |-> algorithmName,
              reason |-> result.Reason, notFound |-> notFound,
              requestedName |-> requestedName, ratios |-> ratios, tolerance |-> tolerance,
              weights |-> bound.algorithm.Weights,
              registry |-> IF Has(reg, algorithmName)
                           THEN StoreSmoothed(bound.registry, algorithmName, result)
                           ELSE reg]

----------------------------------------------------------------------------
(* Status and conditions *)

Condition(type, st, reason, message) ==
    [Type |-> type, Status |-> st, Reason |-> reason, Message |-> message]

ConditionTypes == {ConditionTypeReady, ConditionTypeScaling, ConditionTypeAlgorithmValid}

\* the policy has no condition of the type
NoCondition(type) == Condition(type, "", "", "")

\* a policy nobody reconciled yet; Conditions holds at most one condition per
\* type (updateCondition never appends a second one), kept by type
EmptyStatus ==
    [CurrentReplicas |-> 0, DesiredReplicas |-> 0, LastAlgorithm |-> "",
     LastScaleReason |-> "", Conditions |-> [t \in ConditionTypes |-> NoCondition(t)]]

\* the loop of updateCondition: replace the condition of the same type, or
\* append
SetCondition(conds, c) == [conds EXCEPT ![c.Type] = c]

hasCondition(st, type, cs, reason) ==
    \E t \in ConditionTypes :
        /\ st.Conditions[t].Type = type
        /\ st.Conditions[t].Status = cs
        /\ st.Conditions[t].Reason = reason

\* the most Status().Update calls one pass makes
MaxStatusCalls == 4

\* the status API serves every Status().Update of a pass or none of them (a
\* conflict or an unreachable API server outlasts the pass); calls is the
\* number of calls the pass makes
StatusOutcomes(calls) ==
    {[i \in 1..MaxStatusCalls |-> i <= j \/ i > calls] : j \in {0, calls}}

\* r.Status().Update(ctx, policy): the object in memory (mem) replaces the
\* stored status when the call succeeds; the object in memory keeps its
\* changes either way
StatusUpdate(acc, statusOK) ==
    [mem    |-> acc.mem,
     stored |-> IF statusOK[acc.calls + 1] THEN acc.mem ELSE acc.stored,
     calls  |-> acc.calls + 1,
     \* what the calls of the pass stored, one after the other
     seen   |-> IF statusOK[acc.calls + 1] THEN Append(acc.seen, acc.mem) ELSE acc.seen]

updateCondition(acc, type, cs, reason, message, statusOK) ==
    StatusUpdate([acc EXCEPT !.mem.Conditions =
                     SetCondition(acc.mem.Conditions, Condition(type, cs, reason, message))],
                 statusOK)

\* updateStatus of pkg/controller (the stored metrics and lastScaleTime are
\* not part of the model's status)
updateStatus(acc, currentReplicas, desiredReplicas, algorithmUsed, scaleReason, statusOK) ==
    StatusUpdate([acc EXCEPT !.mem.CurrentReplicas = currentReplicas,
                             !.mem.DesiredReplicas = desiredReplicas,
                             !.mem.LastAlgorithm = algorithmUsed,
                             !.mem.LastScaleReason = scaleReason],
                 statusOK)

----------------------------------------------------------------------------
(* Target workload *)

\* what the conversion of a NaN or infinite float64 to int32 yields:
\* the smallest int32 (amd64) or 0 (arm64)
MinInt32 == -2147483647 - 1

ConvOutcomes == {0, MinInt32}

ReplicaValues == {NilReplicas} \cup (0..MaxStartReplicas)

\* getCurrentReplicas: an absent replica field reads as 1
CurrentOf(replicas) == IF replicas = NilReplicas THEN 1 ELSE replicas

SupportedKind(pol) == pol.Kind \in {"Deployment", "StatefulSet"}

\* scaleTarget of pkg/controller: Get, set the field, Update
scaleTarget(found, replicas, getFails, updateFails) ==
    IF getFails THEN [err |-> TRUE, sent |-> FALSE, replicas |-> found]
    ELSE IF updateFails THEN [err |-> TRUE, sent |-> TRUE, replicas |-> found]
    ELSE [err |-> FALSE, sent |-> TRUE, replicas |-> replicas]

\* scaleDeployment / scaleStatefulSet of controller/: no Update when the
\* field already holds the value
scaleDeployment(found, replicas, getFails, updateFails) ==
    IF getFails THEN [err |-> TRUE, sent |-> FALSE, replicas |-> found]
    ELSE IF found # NilReplicas /\ found = replicas
    THEN [err |-> FALSE, sent |-> FALSE, replicas |-> found]
    ELSE IF updateFails THEN [err |-> TRUE, sent |-> TRUE, replicas |-> found]
    ELSE [err |-> FALSE, sent |-> TRUE, replicas |-> replicas]

----------------------------------------------------------------------------
(* Cooldown *)

EffectiveCooldown(pol) ==
    IF pol.CooldownPeriod = 0 THEN DefaultCooldownPeriod ELSE pol.CooldownPeriod

\* canScale of controller/
canScale(entry, pol, t) == entry = NoEntry \/ t - entry >= EffectiveCooldown(pol)

----------------------------------------------------------------------------
(* One reconciliation pass of pkg/controller *)

\* what the environment does to one pass: the metric fetches, the API calls
\* that fail, the replica field another writer left between the pass's read
\* and its write
Inputs ==
    [getFails : BOOLEAN, out : Outcomes, conv : ConvOutcomes, atWrite : ReplicaValues,
     scaleGetFails : BOOLEAN, updateFails : BOOLEAN,
     statusOK : [1..MaxStatusCalls -> BOOLEAN]]

NonFinite(ratios) == \E i \in 1..Len(ratios) : ~IsFinite(ratios[i])

\* a cooldown check that never skips
InCooldownIgnored(entry, pol, t, desiredReplicas, currentReplicas) == FALSE

\* the cooldown check of Reconcile in pkg/controller
InCooldown(entry, pol, t, desiredReplicas, currentReplicas) ==
    /\ entry # NoEntry
    /\ t - entry < EffectiveCooldown(pol)
    /\ desiredReplicas # currentReplicas

\* a pass that also stops when the fetch of an enabled signal fails
PassStopsOnFetchError(pol, getFails, out) ==
    \/ getFails
    \/ ~SupportedKind(pol)
    \/ FetchedP99(pol) /\ out.p99 = FetchErr
    \/ FetchedP95(pol) /\ out.p95 = FetchErr
    \/ FetchedGPU(pol) /\ out.gpu = FetchErr
    \/ FetchedQueue(pol) /\ out.queue = FetchErr

\* the errors that end a pass before it computes: the one of
\* getCurrentReplicas; fetchMetrics logs the error of each fetch and returns
\* a nil error
PassStops(pol, getFails, out) == getFails \/ ~SupportedKind(pol)

\* Reconcile up to the cooldown check: read, fetch, compute
Decide(k, getFails, out, conv) ==
    LET pol  == policy[k]
        currentReplicas == CurrentOf(target)
        cm   == fetchMetrics(pol, out)
        calc == calculateDesiredReplicas(registry, k, pol, currentReplicas, cm, conv)
        skip == InCooldown(LastScaleTime[k], pol, now, calc.desiredReplicas,
                           currentReplicas)
    IN  [found   |-> pol # NoPolicy,
         getErr  |-> PassStops(pol, getFails, out),
         currentReplicas |-> currentReplicas,
         calc    |-> calc,
         \* the event is recorded before the condition is updated
         emit    |-> /\ calc.requestedName # "" /\ calc.notFound
                     /\ ~hasCondition(status[k], ConditionTypeAlgorithmValid, "False",
                                      ReasonUnknownAlgorithm),
         entry   |-> LastScaleTime[k],
         skip    |-> skip,
         scaling |-> ~skip /\ calc.desiredReplicas # currentReplicas]

\* the rest of Reconcile: conditions, replica write, ledger, status
Finish(k, d, in) ==
    LET calc     == d.calc
        acc0     == [mem |-> status[k], stored |-> status[k], calls |-> 0, seen |-> <<>>]
        acc1     == IF calc.requestedName = "" THEN acc0
                    ELSE IF calc.notFound
                    THEN updateCondition(acc0, ConditionTypeAlgorithmValid, "False",
                                         ReasonUnknownAlgorithm, calc.algorithmUsed,
                                         in.statusOK)
                    ELSE updateCondition(acc0, ConditionTypeAlgorithmValid, "True",
                                         "AlgorithmFound", calc.algorithmUsed, in.statusOK)
        sc       == scaleTarget(in.atWrite, calc.desiredReplicas, in.scaleGetFails,
                                in.updateFails)
        accFail  == updateCondition(acc1, ConditionTypeScaling, "False", "ScaleFailed", "",
                                    in.statusOK)
        acc2     == IF d.scaling
                    THEN updateCondition(acc1, ConditionTypeScaling, "True", "Scaled",
                                         calc.algorithmUsed, in.statusOK)
                    ELSE acc1
        acc3     == updateStatus(acc2, d.currentReplicas, calc.desiredReplicas,
                                 calc.algorithmUsed, calc.reason, in.statusOK)
        acc4     == updateCondition(acc3, ConditionTypeReady, "True", "Ready", "",
                                    in.statusOK)
        accGet   == updateCondition(acc0, ConditionTypeReady, "False", "TargetNotFound", "",
                                    in.statusOK)
        ghost    == [key |-> k, impl |-> "pkg", out |-> in.out, getFails |-> in.getFails,
                     currentReplicas |-> d.currentReplicas,
                     desiredReplicas |-> calc.desiredReplicas, reason |-> calc.reason,
                     algorithmUsed |-> calc.algorithmUsed, notFound |-> calc.notFound,
                     ratios |-> calc.ratios, tolerance |-> calc.tolerance,
                     weights |-> calc.weights, entry |-> d.entry, lastWrite |-> written[k],
                     atWrite |-> in.atWrite, emitted |-> d.emit, conv |-> in.conv,
                     scaling |-> d.scaling, scaleGetFails |-> in.scaleGetFails,
                     \* the events of the pass, by reason: the only Record call
                     \* of Reconcile is RecordUnknownAlgorithm
                     recorded |-> IF d.emit THEN {ReasonUnknownAlgorithm} ELSE {},
                     statusOK |-> in.statusOK[1],
                     \* the Status().Update calls made before scaleTarget
                     callsBeforeWrite |-> acc1.calls,
                     \* every return of the pass carries a nil error
                     returnedErr |-> FALSE,
                     requeueAfter |-> DefaultRequeueInterval]
        quiet    == [ghost EXCEPT !.currentReplicas = 0, !.desiredReplicas = 0,
                                  !.callsBeforeWrite = 0,
                                  !.reason = "", !.algorithmUsed = "", !.notFound = FALSE,
                                  !.ratios = <<>>, !.weights = <<>>, !.emitted = FALSE,
                                  !.recorded = {},
                                  !.tolerance = Frac(0, 1), !.scaling = FALSE]
    IN  IF ~d.found
        THEN [stored |-> acc0.stored, calls |-> 0, target |-> target, entry |-> d.entry,
              registry |-> registry, emitted |-> FALSE,
              pass |-> [quiet EXCEPT !.requeueAfter = 0]
                       @@ [stage |-> "notFound", seen |-> <<>>, updateSent |-> FALSE, wrote |-> FALSE,
                           scaleErr |-> FALSE, ledgerSet |-> FALSE]]
        ELSE IF d.getErr
        THEN [stored |-> accGet.stored, calls |-> accGet.calls, target |-> target,
              entry |-> d.entry, registry |-> registry, emitted |-> FALSE,
              pass |-> quiet @@ [stage |-> "readFailed", seen |-> accGet.seen, updateSent |-> FALSE,
                                 wrote |-> FALSE, scaleErr |-> FALSE, ledgerSet |-> FALSE]]
        ELSE IF d.skip
        THEN [stored |-> acc1.stored, calls |-> acc1.calls, target |-> target,
              entry |-> d.entry, registry |-> calc.registry, emitted |-> d.emit,
              pass |-> ghost @@ [stage |-> "cooldown", seen |-> acc1.seen, updateSent |-> FALSE,
                                 wrote |-> FALSE, scaleErr |-> FALSE, ledgerSet |-> FALSE]]
        ELSE IF d.scaling /\ sc.err
        THEN [stored |-> accFail.stored, calls |-> accFail.calls, target |-> sc.replicas,
              entry |-> d.entry, registry |-> calc.registry, emitted |-> d.emit,
              pass |-> ghost @@ [stage |-> "scaleFailed", seen |-> accFail.seen, updateSent |-> sc.sent,
                                 wrote |-> FALSE, scaleErr |-> TRUE, ledgerSet |-> FALSE]]
        ELSE [stored |-> acc4.stored, calls |-> acc4.calls,
              target |-> IF d.scaling THEN sc.replicas ELSE target,
              entry |-> IF d.scaling THEN now ELSE d.entry,
              registry |-> calc.registry, emitted |-> d.emit,
              pass |-> ghost @@ [stage |-> "done", seen |-> acc4.seen, updateSent |-> d.scaling /\ sc.sent,
                                 wrote |-> d.scaling /\ sc.sent, scaleErr |-> FALSE,
                                 ledgerSet |-> d.scaling]]

\* the whole pass
ReconcilePass(k, in) == Finish(k, Decide(k, in.getFails, in.out, in.conv), in)

\* the inputs one pass consumes; an input the pass does not consume is
\* fixed, so that one pass is one step
OutcomesFor(pol, getFails) ==
    {out \in Outcomes :
        /\ ~(FetchedP99(pol) /\ ~getFails) => out.p99 = FetchErr
        /\ ~(FetchedP95(pol) /\ ~getFails) => out.p95 = FetchErr
        /\ ~(FetchedGPU(pol) /\ ~getFails) => out.gpu = FetchErr
        /\ ~(FetchedQueue(pol) /\ ~getFails) => out.queue = FetchErr}

\* whether the Get of getCurrentReplicas fails; a policy of an unsupported
\* kind gets the error of the default case and no Get
GetOutcomes(pol) ==
    IF pol = NoPolicy THEN {FALSE} ELSE IF SupportedKind(pol) THEN BOOLEAN ELSE {TRUE}

ConvFor(pol, out) ==
    IF NonFinite(buildMetricRatios(pol, CurrentOf(target), fetchMetrics(pol, out)))
    THEN ConvOutcomes ELSE {0}

\* what scaleTarget's Get finds: the field as the pass read it, or the value
\* the pass is about to write, set by another writer in between, or one
\* replica more than the pass read, set by another writer in between
AtWrite(desiredReplicas) == {target, desiredReplicas, CurrentOf(target) + 1}

\* <<Get fails, Update fails>>
ScaleFaults == {<<FALSE, FALSE>>, <<TRUE, FALSE>>, <<FALSE, TRUE>>}

AllOK == [i \in 1..MaxStatusCalls |-> TRUE]

Input(getFails, out, conv, atWrite, fault, statusOK) ==
    [getFails |-> getFails, out |-> out, conv |-> conv, atWrite |-> atWrite,
     scaleGetFails |-> fault[1], updateFails |-> fault[2], statusOK |-> statusOK]

Bump(n) == IF n < MaxEvents THEN n + 1 ELSE n

Reconcile(k) ==
    /\ binary = "pkg"
    /\ passes < MaxPasses
    /\ \E getFails \in GetOutcomes(policy[k]) :
       \E out \in OutcomesFor(policy[k], getFails) :
       \E conv \in ConvFor(policy[k], out) :
       \E d \in {Decide(k, getFails, out, conv)} :
       \E scales \in {d.found /\ ~d.getErr /\ d.scaling} :
           \E atWrite \in IF scales THEN AtWrite(d.calc.desiredReplicas) ELSE {target} :
           \E fault \in IF scales THEN ScaleFaults ELSE {<<FALSE, FALSE>>} :
           \E in0 \in {Input(getFails, out, conv, atWrite, fault, AllOK)} :
               \E statusOK \in StatusOutcomes(Finish(k, d, in0).calls) :
               \E o \in {Finish(k, d, [in0 EXCEPT !.statusOK = statusOK])} :
                   /\ status' = [status EXCEPT ![k] = o.stored]
                   /\ target' = o.target
                   /\ LastScaleTime' = [LastScaleTime EXCEPT ![k] = o.entry]
                   /\ registry' = o.registry
                   /\ events' = [events EXCEPT ![k] = IF o.emitted THEN Bump(@) ELSE @]
                   /\ written' = [written EXCEPT ![k] = IF o.pass.wrote THEN now ELSE @]
                   /\ lastPass' = o.pass
    /\ passes' = passes + 1
    /\ UNCHANGED <<binary, policy, lastScaleTime, now, lastRegister, webhook, threads, lastCalculate>>

----------------------------------------------------------------------------
(* One reconciliation pass of controller/ (the older reconciler) *)

\* calculateDesiredReplicas of controller/: the largest ratio, not below 1
LegacyCalculateDesiredReplicas(pol, currentReplicas, cm, conv) ==
    Clamp(CeilMul(currentReplicas,
                  MaxOf(buildMetricRatios(pol, currentReplicas, cm), One), conv),
          EffectiveMin(pol), pol.MaxReplicas)

\* updateStatus of controller/
LegacyUpdateStatus(acc, currentReplicas, desiredReplicas, statusOK) ==
    StatusUpdate([acc EXCEPT !.mem.CurrentReplicas = currentReplicas,
                             !.mem.DesiredReplicas = desiredReplicas],
                 statusOK)

LegacyPass(k, in) ==
    LET pol      == policy[k]
        acc0     == [mem |-> status[k], stored |-> status[k], calls |-> 0, seen |-> <<>>]
        getErr   == in.getFails \/ ~SupportedKind(pol)
        currentReplicas == CurrentOf(target)
        cm       == fetchMetrics(pol, in.out)
        ratios   == buildMetricRatios(pol, currentReplicas, cm)
        desiredReplicas == LegacyCalculateDesiredReplicas(pol, currentReplicas, cm, in.conv)
        entry    == lastScaleTime[k]
        skip     == ~canScale(entry, pol, now)
        scaling  == ~skip /\ desiredReplicas # currentReplicas
        sc       == scaleDeployment(in.atWrite, desiredReplicas, in.scaleGetFails,
                                    in.updateFails)
        acc1     == LegacyUpdateStatus(acc0, currentReplicas, desiredReplicas, in.statusOK)
        ghost    == [key |-> k, impl |-> "legacy", out |-> in.out, getFails |-> in.getFails,
                     currentReplicas |-> currentReplicas,
                     desiredReplicas |-> desiredReplicas, reason |-> "",
                     algorithmUsed |-> "", notFound |-> FALSE,
                     ratios |-> ratios, tolerance |-> Frac(0, 1),
                     weights |-> <<>>, entry |-> entry, lastWrite |-> written[k],
                     atWrite |-> in.atWrite, emitted |-> FALSE, conv |-> in.conv,
                     scaling |-> scaling, scaleGetFails |-> in.scaleGetFails,
                     recorded |-> {}, statusOK |-> in.statusOK[1],
                     callsBeforeWrite |-> 0, returnedErr |-> FALSE,
                     requeueAfter |-> DefaultRequeueInterval]
        quiet    == [ghost EXCEPT !.currentReplicas = 0, !.desiredReplicas = 0,
                                  !.ratios = <<>>, !.scaling = FALSE]
    IN  IF pol = NoPolicy
        THEN [stored |-> acc0.stored, calls |-> 0, target |-> target, entry |-> entry,
              scales |-> FALSE,
              pass |-> [quiet EXCEPT !.requeueAfter = 0]
                       @@ [stage |-> "notFound", seen |-> <<>>, updateSent |-> FALSE, wrote |-> FALSE,
                           scaleErr |-> FALSE, ledgerSet |-> FALSE]]
        ELSE IF getErr
        THEN [stored |-> acc0.stored, calls |-> 0, target |-> target, entry |-> entry,
              scales |-> FALSE,
              \* the read error is returned to the framework
              pass |-> [quiet EXCEPT !.returnedErr = TRUE]
                       @@ [stage |-> "readFailed", seen |-> <<>>, updateSent |-> FALSE,
                                 wrote |-> FALSE, scaleErr |-> FALSE, ledgerSet |-> FALSE]]
        ELSE IF skip
        THEN [stored |-> acc0.stored, calls |-> 0, target |-> target, entry |-> entry,
              scales |-> FALSE,
              pass |-> ghost @@ [stage |-> "cooldown", seen |-> <<>>, updateSent |-> FALSE,
                                 wrote |-> FALSE, scaleErr |-> FALSE, ledgerSet |-> FALSE]]
        ELSE IF scaling /\ sc.err
        THEN [stored |-> acc0.stored, calls |-> 0, target |-> sc.replicas,
              entry |-> entry, scales |-> TRUE,
              \* the write error is returned to the framework
              pass |-> [ghost EXCEPT !.returnedErr = TRUE]
                       @@ [stage |-> "scaleFailed", seen |-> <<>>, updateSent |-> sc.sent,
                                 wrote |-> FALSE, scaleErr |-> TRUE, ledgerSet |-> FALSE]]
        ELSE [stored |-> acc1.stored, calls |-> acc1.calls,
              target |-> IF scaling THEN sc.replicas ELSE target,
              \* setLastScaleTime follows every scaleTarget call that returns nil
              entry |-> IF scaling THEN now ELSE entry,
              scales |-> scaling,
              \* the error of the status update is returned to the framework
              pass |-> [ghost EXCEPT !.returnedErr = ~in.statusOK[1]]
                       @@ [stage |-> "done", seen |-> acc1.seen, updateSent |-> scaling /\ sc.sent,
                                 wrote |-> scaling /\ sc.sent, scaleErr |-> FALSE,
                                 ledgerSet |-> scaling]]

LegacyReconcile(k) ==
    /\ binary = "legacy"
    /\ passes < MaxPasses
    /\ \E getFails \in GetOutcomes(policy[k]) :
       \E out \in OutcomesFor(policy[k], getFails) :
       \E conv \in ConvFor(policy[k], out) :
       \E q \in {LegacyPass(k, Input(getFails, out, conv, target, <<FALSE, FALSE>>, AllOK))} :
           \E atWrite \in IF q.scales THEN AtWrite(q.pass.desiredReplicas) ELSE {target} :
           \E fault \in IF q.scales THEN ScaleFaults ELSE {<<FALSE, FALSE>>} :
           \E in0 \in {Input(getFails, out, conv, atWrite, fault, AllOK)} :
               \E statusOK \in StatusOutcomes(LegacyPass(k, in0).calls) :
               \E o \in {LegacyPass(k, [in0 EXCEPT !.statusOK = statusOK])} :
                   /\ status' = [status EXCEPT ![k] = o.stored]
                   /\ target' = o.target
                   /\ lastScaleTime' = [lastScaleTime EXCEPT ![k] = o.entry]
                   /\ written' = [written EXCEPT ![k] = IF o.pass.wrote THEN now ELSE @]
                   /\ lastPass' = o.pass
    /\ passes' = passes + 1
    /\ UNCHANGED <<binary, policy, LastScaleTime, registry, events, now, lastRegister,
                   webhook, threads, lastCalculate>>

----------------------------------------------------------------------------
(* Environment *)

\* lastPass describes the pass that ended in the step just taken
NoPass ==
    [key |-> "", impl |-> "", out |-> [p99 |-> FetchErr, p95 |-> FetchErr,
                                       gpu |-> FetchErr, queue |-> FetchErr],
     currentReplicas |-> 0, desiredReplicas |-> 0, reason |-> "", algorithmUsed |-> "",
     notFound |-> FALSE, ratios |-> <<>>, tolerance |-> Frac(0, 1), weights |-> <<>>,
     entry |-> NoEntry, lastWrite |-> NoEntry, atWrite |-> NilReplicas,
     emitted |-> FALSE, conv |-> 0, scaling |-> FALSE,
     scaleGetFails |-> FALSE, recorded |-> {}, statusOK |-> TRUE,
     requeueAfter |-> 0, getFails |-> FALSE, callsBeforeWrite |-> 0, seen |-> <<>>,
     returnedErr |-> FALSE, stage |-> "none",
     updateSent |-> FALSE, wrote |-> FALSE, scaleErr |-> FALSE, ledgerSet |-> FALSE]

\* time passes
Tick ==
    /\ now < MaxTicks * TickSeconds
    /\ now' = now + TickSeconds
    /\ lastPass' = NoPass
    /\ UNCHANGED <<binary, policy, status, target, LastScaleTime, lastScaleTime, registry,
                   events, written, passes, lastRegister, webhook, threads, lastCalculate>>

----------------------------------------------------------------------------
(* Policy objects in the API server: update, delete, create *)

\* the algorithm blocks an update of a policy chooses from
EditAlgorithms ==
    {NoAlgorithm, Algorithm("MaxRatio", Frac(1, 10), <<>>),
     Algorithm("NotReal", Frac(1, 10), <<>>)}

\* the policies created under a key
LifecyclePolicies ==
    {Policy("Deployment", 1, 4, 150, Latency(TRUE, 100, 0), NoGPU, NoQueue, alg) :
        alg \in EditAlgorithms}

\* an update of spec.algorithm; the status of the object stays
UpdatePolicy(k) ==
    /\ policy[k] # NoPolicy
    /\ \E alg \in EditAlgorithms :
          /\ alg # policy[k].Algorithm
          /\ policy' = [policy EXCEPT ![k].Algorithm = alg]
    /\ lastPass' = NoPass
    /\ UNCHANGED <<binary, status, target, LastScaleTime, lastScaleTime, registry, now,
                   events, written, passes, lastRegister, webhook, threads, lastCalculate>>

\* the object is deleted, its status with it; Reconcile's Get returns
\* not-found from now on and nothing else in the controller hears of it
DeletePolicy(k) ==
    /\ policy[k] # NoPolicy
    /\ policy' = [policy EXCEPT ![k] = NoPolicy]
    /\ status' = [status EXCEPT ![k] = EmptyStatus]
    /\ lastPass' = NoPass
    /\ UNCHANGED <<binary, target, LastScaleTime, lastScaleTime, registry, now, events,
                   written, passes, lastRegister, webhook, threads, lastCalculate>>

\* a new object under a key that has none; lastPass keeps the pass that ended
\* before the creation
CreatePolicy(k) ==
    /\ policy[k] = NoPolicy
    /\ \E pol \in LifecyclePolicies : policy' = [policy EXCEPT ![k] = pol]
    /\ status' = [status EXCEPT ![k] = EmptyStatus]
    /\ UNCHANGED <<binary, target, LastScaleTime, lastScaleTime, registry, now, events,
                   written, passes, lastPass, lastRegister, webhook, threads, lastCalculate>>

----------------------------------------------------------------------------
(* Registry operations: pkg/scaling/registry.go *)

\* algorithm names as the bytes of their strings
NameBytes ==
    [MaxRatio      |-> <<77, 97, 120, 82, 97, 116, 105, 111>>,
     AverageRatio  |-> <<65, 118, 101, 114, 97, 103, 101, 82, 97, 116, 105, 111>>,
     WeightedRatio |-> <<87, 101, 105, 103, 104, 116, 101, 100, 82, 97, 116, 105, 111>>]

\* unicode.IsSpace on single bytes
IsSpace(c) == c \in {9, 10, 11, 12, 13, 32, 133, 160}

RECURSIVE TrimLeft(_)
TrimLeft(s) == IF s # <<>> /\ IsSpace(Head(s)) THEN TrimLeft(Tail(s)) ELSE s

RECURSIVE TrimRight(_)
TrimRight(s) ==
    IF s # <<>> /\ IsSpace(s[Len(s)]) THEN TrimRight(SubSeq(s, 1, Len(s) - 1)) ELSE s

\* strings.TrimSpace
TrimSpace(s) == TrimRight(TrimLeft(s))

\* a ScalingAlgorithm value handed to Register; Nil is the nil interface
Named(name, tol) == [Nil |-> FALSE, Name |-> name, Tolerance |-> tol, Weights |-> <<>>]

NilAlgorithm == [Nil |-> TRUE, Name |-> <<>>, Tolerance |-> Frac(0, 1), Weights |-> <<>>]

\* NewRegistry: an empty map
NewRegistry == <<>>

\* Register overwriting the entry of a name already present
RegisterOverwrite(reg, algorithm) ==
    IF algorithm.Nil THEN [err |-> "nil algorithm", algorithms |-> reg]
    ELSE IF TrimSpace(algorithm.Name) = <<>>
    THEN [err |-> "ErrInvalidAlgorithmName", algorithms |-> reg]
    ELSE [err |-> "",
          algorithms |-> [n \in DOMAIN reg \cup {TrimSpace(algorithm.Name)} |->
                            IF n = TrimSpace(algorithm.Name) THEN algorithm ELSE reg[n]]]

\* Registry.Register, one call running alone
Register(reg, algorithm) ==
    IF algorithm.Nil THEN [err |-> "nil algorithm", algorithms |-> reg]
    ELSE IF TrimSpace(algorithm.Name) = <<>>
    THEN [err |-> "ErrInvalidAlgorithmName", algorithms |-> reg]
    ELSE IF TrimSpace(algorithm.Name) \in DOMAIN reg
    THEN [err |-> "ErrAlgorithmAlreadyRegistered", algorithms |-> reg]
    ELSE [err |-> "",
          algorithms |-> [n \in DOMAIN reg \cup {TrimSpace(algorithm.Name)} |->
                            IF n = TrimSpace(algorithm.Name) THEN algorithm ELSE reg[n]]]

\* the registry after init(): MustRegister of the three built-ins
RegistryAfterInit ==
    Register(Register(Register(NewRegistry,
                               Named(NameBytes.MaxRatio, DefaultTolerance)).algorithms,
                      Named(NameBytes.AverageRatio, DefaultTolerance)).algorithms,
             Named(NameBytes.WeightedRatio, DefaultTolerance)).algorithms

\* a < b in the byte order of sort.Strings
LexLess(a, b) ==
    \E k \in 0..Len(a) :
        /\ k <= Len(b)
        /\ SubSeq(a, 1, k) = SubSeq(b, 1, k)
        /\ \/ k = Len(a) /\ k < Len(b)
           \/ k < Len(a) /\ k < Len(b) /\ a[k + 1] < b[k + 1]

RECURSIVE SortStringsByLength(_)
SortStringsByLength(names) ==
    IF names = {} THEN <<>>
    ELSE LET m == CHOOSE x \in names :
                    \A y \in names \ {x} : Len(x) < Len(y) \/ (Len(x) = Len(y) /\ LexLess(x, y))
         IN  <<m>> \o SortStringsByLength(names \ {m})

RECURSIVE SortStrings(_)
\* sort.Strings over the names collected from the map, in whatever order the
\* map iteration produced them
SortStrings(names) ==
    IF names = {} THEN <<>>
    ELSE LET m == CHOOSE x \in names : \A y \in names \ {x} : LexLess(x, y)
         IN  <<m>> \o SortStrings(names \ {m})

\* Registry.List
List(reg) == SortStrings(DOMAIN reg)

\* Registry.Get returns ErrAlgorithmNotFound
GetFails(reg, name) == name \notin DOMAIN reg

\* names handed to Register: "", " ", "A", "a", " A", "A ", "AA", "B"
RegisterNames ==
    {<<>>, <<32>>, <<65>>, <<97>>, <<32, 65>>, <<65, 32>>, <<65, 65>>, <<66>>}

RegisterArguments ==
    {NilAlgorithm, Named(NameBytes.MaxRatio, Frac(2, 10))}
    \cup {Named(n, tol) : n \in RegisterNames, tol \in {DefaultTolerance, Frac(2, 10)}}

NoRegister == [called |-> FALSE, algorithm |-> NilAlgorithm, err |-> "", before |-> <<>>]

\* one Register call on the reconciler's registry
RegisterCall ==
    \E algorithm \in RegisterArguments :
        /\ Cardinality(DOMAIN registry) < MaxRegistered
        /\ registry' = Register(registry, algorithm).algorithms
        /\ lastRegister' = [called |-> TRUE, algorithm |-> algorithm,
                            err |-> Register(registry, algorithm).err, before |-> registry]
        /\ UNCHANGED <<binary, policy, status, target, LastScaleTime, lastScaleTime, now,
                       events, written, passes, lastPass, webhook, threads, lastCalculate>>

----------------------------------------------------------------------------
(* Admission: api/v1alpha1 Validate and SetDefaults, pkg/webhook *)

TargetRef(apiVersion, kind, name) ==
    [APIVersion |-> apiVersion, Kind |-> kind, Name |-> name]

\* the fields of AIInferenceAutoscalerPolicySpec that admission reads or sets
Object(ref, lo, hi, cooldown, lat, gpu, queue) ==
    [TargetRef |-> ref, MinReplicas |-> lo, MaxReplicas |-> hi,
     CooldownPeriod |-> cooldown,
     Metrics |-> [Latency |-> lat, GPUUtilization |-> gpu, RequestQueueDepth |-> queue]]

\* MetricsSpec.Validate; "" is a nil error
MetricsValidate(m) ==
    IF m.Latency.Set /\ m.Latency.Enabled
       /\ m.Latency.TargetP99Ms <= 0 /\ m.Latency.TargetP95Ms <= 0
    THEN "latency metric enabled but no target specified"
    ELSE IF m.GPUUtilization.Set /\ m.GPUUtilization.Enabled
            /\ (m.GPUUtilization.TargetPercentage <= 0
                \/ m.GPUUtilization.TargetPercentage > 100)
    THEN "gpuUtilization.targetPercentage must be between 1 and 100"
    ELSE IF m.RequestQueueDepth.Set /\ m.RequestQueueDepth.Enabled
            /\ m.RequestQueueDepth.TargetDepth < 0
    THEN "requestQueueDepth.targetDepth cannot be negative"
    ELSE IF ~ \/ m.Latency.Set /\ m.Latency.Enabled
              \/ m.GPUUtilization.Set /\ m.GPUUtilization.Enabled
              \/ m.RequestQueueDepth.Set /\ m.RequestQueueDepth.Enabled
    THEN "at least one metric must be enabled"
    ELSE ""

\* AIInferenceAutoscalerPolicySpec.Validate; "" is a nil error
Validate(obj) ==
    IF obj.TargetRef.Name = "" THEN "targetRef.name is required"
    ELSE IF obj.TargetRef.Kind # "Deployment" /\ obj.TargetRef.Kind # "StatefulSet"
    THEN "targetRef.kind must be Deployment or StatefulSet"
    ELSE IF obj.MaxReplicas <= 0 THEN "maxReplicas must be greater than 0"
    ELSE IF obj.MinReplicas < 0 THEN "minReplicas cannot be negative"
    ELSE IF obj.MinReplicas > obj.MaxReplicas
    THEN "minReplicas cannot be greater than maxReplicas"
    ELSE MetricsValidate(obj.Metrics)

SetDefaults(obj) ==
    [obj EXCEPT !.MinReplicas = IF @ = 0 THEN 1 ELSE @,
                !.CooldownPeriod = IF @ = 0 THEN 300 ELSE @,
                !.TargetRef.APIVersion = IF @ = "" THEN "apps/v1" ELSE @]

\* the objects sent to admission
WebhookObjects ==
    { Object(TargetRef(v, kind, name), lo, hi, cooldown, lat, gpu, queue) :
        v \in {"", "apps/v1"}, kind \in {"Deployment", "StatefulSet", "DaemonSet"},
        name \in {"", "llm"}, lo \in -1..MaxWebhookReplicas, hi \in 0..MaxWebhookReplicas,
        cooldown \in {-1, 0, 60},
        lat \in {NoLatency, Latency(TRUE, 0, 0), Latency(TRUE, 0, 100)},
        gpu \in {NoGPU, GPU(FALSE, 0), GPU(TRUE, 0), GPU(TRUE, 101)},
        queue \in {NoQueue, Queue(TRUE, -1), Queue(TRUE, 0)} }

\* no object is in admission
NoRequest ==
    [stage |-> "none", round |-> 0, err |-> "",
     obj    |-> Object(TargetRef("", "", ""), 0, 0, 0, NoLatency, NoGPU, NoQueue),
     before |-> Object(TargetRef("", "", ""), 0, 0, 0, NoLatency, NoGPU, NoQueue)]

WebhookUnchanged ==
    UNCHANGED <<binary, policy, status, target, LastScaleTime, lastScaleTime, registry,
                now, events, written, passes, lastPass, lastRegister, threads, lastCalculate>>

\* Default of the mutating webhook, on a create and on the update of an
\* admitted object; before is the object the call was given
Default ==
    /\ webhook.stage \in {"submitted", "admitted"}
    /\ webhook.round < MaxAdmissions
    /\ webhook' = [stage |-> "defaulted", round |-> webhook.round + 1, err |-> "",
                   obj |-> SetDefaults(webhook.obj), before |-> webhook.obj]
    /\ WebhookUnchanged

\* ValidateCreate of the validating webhook
ValidateCreate ==
    /\ webhook.stage = "defaulted"
    /\ webhook.round = 1
    /\ webhook' = [webhook EXCEPT !.err = Validate(webhook.obj),
                                  !.stage = IF Validate(webhook.obj) = ""
                                            THEN "admitted" ELSE "rejected"]
    /\ WebhookUnchanged

\* ValidateUpdate of the validating webhook; a changed targetRef.name gives
\* a warning and no error
ValidateUpdate ==
    /\ webhook.stage = "defaulted"
    /\ webhook.round > 1
    /\ webhook' = [webhook EXCEPT !.err = Validate(webhook.obj),
                                  !.stage = IF Validate(webhook.obj) = ""
                                            THEN "admitted" ELSE "rejected"]
    /\ WebhookUnchanged

-----------------------------------------------------------------------------
(* Callers of the legacy Calculate *)

\* the built-in algorithms as NewMaxRatioAlgorithm, NewAverageRatioAlgorithm
\* and NewWeightedRatioAlgorithm build them
CalculateInstances ==
    {[Instance(name, weights) EXCEPT !.Tolerance = tol] :
        name \in {"MaxRatio", "AverageRatio", "WeightedRatio"},
        weights \in {<<>>, <<0, 2>>},
        tol \in {Frac(0, 1), DefaultTolerance}}

CalculateRatios ==
    {<<>>, <<One>>, <<Frac(1, 2)>>, <<Frac(2, 1)>>, <<Frac(105, 100)>>,
     <<Frac(3, 2), Frac(1, 2)>>, <<Frac(4, 0)>>}

\* AlgorithmInput values
CalculateInputs ==
    [CurrentReplicas : 0..MaxCalculateReplicas, MinReplicas : {1, 2}, MaxReplicas : {2, 4},
     MetricRatios : CalculateRatios]

NoCalculate ==
    [called |-> FALSE, algorithm |-> Instance("", <<>>),
     input |-> [CurrentReplicas |-> 0, MinReplicas |-> 0, MaxReplicas |-> 0,
                MetricRatios |-> <<>>],
     calculate |-> 0, computeScale |-> 0]

\* a caller that runs Calculate and ComputeScale of an instance once, on the
\* same current/min/max/ratios, ComputeScale with the tolerance of the
\* instance
CalculateCall ==
    /\ ~lastCalculate.called
    /\ \E algorithm \in CalculateInstances :
       \E input \in CalculateInputs :
       \E conv \in IF NonFinite(input.MetricRatios) THEN ConvOutcomes ELSE {0} :
           /\ lastCalculate' =
                 [called |-> TRUE, algorithm |-> algorithm, input |-> input,
                  calculate |-> Calculate(algorithm, input, conv),
                  computeScale |->
                     ComputeScale(algorithm,
                                  input @@ [Tolerance |-> algorithm.Tolerance,
                                            PolicyName |-> "", PolicyNamespace |-> ""],
                                  conv).DesiredReplicas]
           /\ UNCHANGED <<binary, policy, status, target, LastScaleTime, lastScaleTime, registry,
                          now, events, written, passes, lastPass, lastRegister, webhook, threads>>

-----------------------------------------------------------------------------
(* Goroutines: Register calls that run at the same time *)

Threads == {1, 2}

\* a goroutine outside any call
Idle == [pc |-> "idle", algorithm |-> NilAlgorithm, err |-> ""]

\* a worker outside the ledger accesses of a pass; desiredReplicas and
\* currentReplicas are what its pass decided and read, dirty tells that the
\* access in progress ran while another worker wrote the map
NoWorker == [pc |-> "idle", desiredReplicas |-> 0, currentReplicas |-> 0, dirty |-> FALSE]

\* mu is the goroutine holding Registry.mu, 0 when it is free; raced records
\* a map read that ran while another goroutine held the lock to write
NoThreads ==
    [mu |-> 0, raced |-> FALSE, call |-> [t \in Threads |-> Idle],
     lastScaleMutex |-> [readers |-> {}, writer |-> 0],
     pass |-> [t \in Threads |-> NoWorker]]

\* algorithms handed to Register by the goroutines: "A", " A", "B" and ""
ConcurrentArguments ==
    {Named(n, tol) : n \in {<<65>>, <<32, 65>>, <<66>>}, tol \in {DefaultTolerance, Frac(2, 10)}}
    \cup {Named(<<>>, DefaultTolerance), NilAlgorithm}

\* what `_, exists := r.algorithms[name]` can give: the map's content, or,
\* when another goroutine holds the lock to write the map, either answer or
\* the runtime's fatal "concurrent map read and map write"
ExistsOutcomes(t, name) ==
    IF \E u \in Threads \ {t} : threads.call[u].pc = "locked"
    THEN {"exists", "absent", "fatal"}
    ELSE IF name \in DOMAIN registry THEN {"exists"} ELSE {"absent"}

\* Register up to the existence check, which runs before the lock is taken
RegisterEnter(t) ==
    /\ threads.call[t].pc = "idle"
    /\ \E algorithm \in ConcurrentArguments :
       \E name \in {TrimSpace(algorithm.Name)} :
       \E exists \in ExistsOutcomes(t, name) :
           /\ threads' =
                 [threads EXCEPT
                    !.raced = @ \/ (~algorithm.Nil /\ name # <<>>
                                    /\ \E u \in Threads \ {t} : threads.call[u].pc = "locked"),
                    !.call[t] =
                       IF algorithm.Nil
                       THEN [pc |-> "returned", algorithm |-> algorithm, err |-> "nil algorithm"]
                       ELSE IF name = <<>>
                       THEN [pc |-> "returned", algorithm |-> algorithm,
                             err |-> "ErrInvalidAlgorithmName"]
                       ELSE IF exists = "fatal"
                       THEN [pc |-> "fatal", algorithm |-> algorithm, err |-> "fatal"]
                       ELSE IF exists = "exists"
                       THEN [pc |-> "returned", algorithm |-> algorithm,
                             err |-> "ErrAlgorithmAlreadyRegistered"]
                       ELSE [pc |-> "waiting", algorithm |-> algorithm, err |-> ""]]
    /\ UNCHANGED <<binary, policy, status, target, LastScaleTime, lastScaleTime, registry, now,
                   events, written, passes, lastPass, lastRegister, webhook, lastCalculate>>

\* r.mu.Lock()
RegisterLock(t) ==
    /\ threads.call[t].pc = "waiting"
    /\ threads.mu = 0
    /\ threads' = [threads EXCEPT !.mu = t, !.call[t].pc = "locked"]
    /\ UNCHANGED <<binary, policy, status, target, LastScaleTime, lastScaleTime, registry, now,
                   events, written, passes, lastPass, lastRegister, webhook, lastCalculate>>

\* r.algorithms[name] = algorithm; return nil, with the deferred Unlock
RegisterStore(t) ==
    /\ threads.call[t].pc = "locked"
    /\ \E algorithm \in {threads.call[t].algorithm} :
           registry' = [n \in DOMAIN registry \cup {TrimSpace(algorithm.Name)} |->
                          IF n = TrimSpace(algorithm.Name) THEN algorithm ELSE registry[n]]
    /\ threads' = [threads EXCEPT !.mu = 0, !.call[t].pc = "returned"]
    /\ UNCHANGED <<binary, policy, status, target, LastScaleTime, lastScaleTime, now,
                   events, written, passes, lastPass, lastRegister, webhook, lastCalculate>>

-----------------------------------------------------------------------------
(* Goroutines: passes of two policies on two workers, and the cooldown ledger *)

\* the policy each worker reconciles
WorkerKey == (1 :> "default/a") @@ (2 :> "default/b")

\* the replica counts a pass can have read and decided
WorkerReplicas == {1, 2}

Accessing(t) == threads.pass[t].pc \in {"reading", "writing"}

LedgerUnchanged ==
    UNCHANGED <<binary, policy, status, target, registry, now, events, written, passes,
                lastPass, lastRegister, webhook, lastCalculate>>

\* the pass up to the start of its cooldown check: canScale takes the read
\* lock of lastScaleMutex in controller/, the map is read without a lock in
\* pkg/controller
CooldownReadBegin(t) ==
    /\ threads.pass[t].pc = "idle"
    /\ binary = "legacy" => threads.lastScaleMutex.writer = 0
    /\ \E c, d \in WorkerReplicas :
           threads' =
              [threads EXCEPT
                 !.pass[t] = [pc |-> "reading", currentReplicas |-> c, desiredReplicas |-> d,
                              dirty |-> \E u \in Threads \ {t} : threads.pass[u].pc = "writing"],
                 !.raced = @ \/ \E u \in Threads \ {t} : threads.pass[u].pc = "writing",
                 !.lastScaleMutex.readers = IF binary = "legacy" THEN @ \cup {t} ELSE @]
    /\ UNCHANGED <<LastScaleTime, lastScaleTime>>
    /\ LedgerUnchanged

\* whether the pass goes on to the scale decision; a read that ran during
\* another worker's write can give either answer
GoesOn(t) ==
    LET w   == threads.pass[t]
        pol == policy[WorkerKey[t]]
    IN  IF binary = "legacy" THEN {canScale(lastScaleTime[WorkerKey[t]], pol, now)}
        ELSE IF w.dirty THEN BOOLEAN
        ELSE {~InCooldown(LastScaleTime[WorkerKey[t]], pol, now, w.desiredReplicas,
                          w.currentReplicas)}

\* the end of the cooldown check: the pass returns, or ends without a
\* ledger write when desired = current, or goes on to scale
CooldownReadEnd(t) ==
    /\ threads.pass[t].pc = "reading"
    /\ \E goesOn \in GoesOn(t) :
           threads' =
              [threads EXCEPT
                 !.pass[t] = IF goesOn /\ @.desiredReplicas # @.currentReplicas
                             THEN [@ EXCEPT !.pc = "checked", !.dirty = FALSE]
                             ELSE NoWorker,
                 !.lastScaleMutex.readers = @ \ {t}]
    /\ UNCHANGED <<LastScaleTime, lastScaleTime>>
    /\ LedgerUnchanged

\* scaleTarget returned nil and the timestamp write starts: setLastScaleTime
\* takes the write lock in controller/, the map is assigned without a lock in
\* pkg/controller
CooldownWriteBegin(t) ==
    /\ threads.pass[t].pc = "checked"
    /\ binary = "legacy" => (threads.lastScaleMutex.writer = 0
                             /\ threads.lastScaleMutex.readers = {})
    /\ \E overlap \in {\E u \in Threads \ {t} : Accessing(u)} :
           threads' =
              [threads EXCEPT
                 !.pass = [u \in Threads |->
                             IF u = t THEN [@[u] EXCEPT !.pc = "writing", !.dirty = overlap]
                             ELSE IF Accessing(u) THEN [@[u] EXCEPT !.dirty = TRUE]
                             ELSE @[u]],
                 !.raced = @ \/ overlap,
                 !.lastScaleMutex.writer = IF binary = "legacy" THEN t ELSE @]
    /\ UNCHANGED <<LastScaleTime, lastScaleTime>>
    /\ LedgerUnchanged

\* the end of the timestamp write; a write that ran during another access
\* to the map stores the entry or ends in the runtime's fatal error
CooldownWriteEnd(t) ==
    /\ threads.pass[t].pc = "writing"
    /\ \E fatal \in IF threads.pass[t].dirty THEN BOOLEAN ELSE {FALSE} :
           /\ threads' =
                 [threads EXCEPT
                    !.pass[t] = IF fatal THEN [@ EXCEPT !.pc = "fatal"] ELSE NoWorker,
                    !.lastScaleMutex.writer = 0]
           /\ LastScaleTime' = IF binary = "pkg" /\ ~fatal
                               THEN [LastScaleTime EXCEPT ![WorkerKey[t]] = now]
                               ELSE LastScaleTime
           /\ lastScaleTime' = IF binary = "legacy"
                               THEN [lastScaleTime EXCEPT ![WorkerKey[t]] = now]
                               ELSE lastScaleTime
    /\ LedgerUnchanged

----------------------------------------------------------------------------
(* Specifications *)

\* the policies of the control-loop specification
LoopPolicies ==
    { Policy("Deployment", 0, 4, 0, Latency(TRUE, 100, 0), NoGPU, NoQueue, NoAlgorithm),
      Policy("Deployment", 1, 4, 150, Latency(TRUE, 100, 0), NoGPU, NoQueue,
             Algorithm("NotReal", Frac(1, 10), <<>>)),
      \* an algorithm block with a name and no tolerance
      Policy("Deployment", 1, 4, 150, Latency(TRUE, 190, 0), NoGPU, NoQueue,
             AlgorithmNoTolerance("MaxRatio", <<>>)),
      \* a target kind getCurrentReplicas has no case for
      Policy("DaemonSet", 1, 4, 0, Latency(TRUE, 100, 0), NoGPU, NoQueue, NoAlgorithm) }

InitCommon ==
    /\ status = [k \in Keys |-> EmptyStatus]
    /\ target \in ReplicaValues
    /\ LastScaleTime = [k \in Keys |-> NoEntry]
    /\ lastScaleTime = [k \in Keys |-> NoEntry]
    /\ now = 0
    /\ events = [k \in Keys |-> 0]
    /\ written = [k \in Keys |-> NoEntry]
    /\ passes = 0
    /\ lastPass = NoPass
    /\ lastRegister = NoRegister
    /\ threads = NoThreads
    /\ lastCalculate = NoCalculate

\* the control loop: one policy, either controller, passes and clock steps
Init ==
    /\ binary \in {"pkg", "legacy"}
    /\ policy \in {p \in [Keys -> LoopPolicies \cup {NoPolicy}] :
                      p["default/a"] # NoPolicy /\ p["default/b"] = NoPolicy}
    /\ registry = DefaultRegistry
    /\ InitCommon
    /\ webhook = NoRequest

Next ==
    \/ \E k \in Keys : Reconcile(k)
    \/ \E k \in Keys : LegacyReconcile(k)
    \/ Tick

Spec == Init /\ [][Next]_vars

\* a second policy, on the same workload, that names WeightedRatio and brings
\* no weights
SharedPolicy ==
    Policy("Deployment", 1, 3, 150, Latency(TRUE, 100, 0), GPU(TRUE, 80), NoQueue,
           Algorithm("WeightedRatio", Frac(1, 10), <<>>))

\* the algorithms: every policy shape, both registries, passes of pkg/controller
InitAlgorithms ==
    /\ binary = "pkg"
    /\ policy \in {p \in [Keys -> PolicySpecs \cup {NoPolicy}] :
                      p["default/a"] # NoPolicy /\ p["default/b"] \in {NoPolicy, SharedPolicy}}
    /\ registry \in Registries
    /\ InitCommon
    /\ webhook = NoRequest

NextAlgorithms == passes < MaxAlgorithmPasses /\ \E k \in Keys : Reconcile(k)

SpecAlgorithms == InitAlgorithms /\ [][NextAlgorithms]_vars

\* two policies that name WeightedRatio, one with weights of its own; their
\* passes interleave
OwnWeightsPolicy ==
    Policy("Deployment", 1, 4, 0, Latency(TRUE, 100, 0), GPU(FALSE, 80), Queue(TRUE, 2),
           Algorithm("WeightedRatio", Frac(0, 1), <<0, 2>>))

InitShared ==
    /\ binary = "pkg"
    /\ policy = [k \in Keys |-> IF k = "default/a" THEN OwnWeightsPolicy ELSE SharedPolicy]
    /\ registry \in Registries
    /\ InitCommon
    /\ webhook = NoRequest

NextShared == passes < MaxSharedPasses /\ \E k \in Keys : Reconcile(k)

SpecShared == InitShared /\ [][NextShared]_vars

\* policies that name the example plugin algorithm, with and without a
\* tolerance of their own
PluginPolicies ==
    { Policy("Deployment", 2, 4, 0, Latency(TRUE, 100, 0), NoGPU, NoQueue,
             Algorithm("CappedSmoothRatio", Frac(1, 10), <<>>)),
      Policy("Deployment", 1, 3, 0, Latency(TRUE, 100, 0), NoGPU, NoQueue,
             AlgorithmNoTolerance("CappedSmoothRatio", <<>>)) }

\* the controller started with the example plugin loaded
InitPlugin ==
    /\ binary = "pkg"
    /\ policy \in {p \in [Keys -> PluginPolicies \cup {NoPolicy}] :
                      p["default/a"] # NoPolicy /\ p["default/b"] = NoPolicy}
    /\ registry = PluginRegistry
    /\ InitCommon
    /\ webhook = NoRequest

NextPlugin == passes < MaxPluginPasses /\ \E k \in Keys : Reconcile(k)

SpecPlugin == InitPlugin /\ [][NextPlugin]_vars

\* queue-depth policies whose target depth is near the top of int32
WidePolicies ==
    { Policy("Deployment", 1, 4, 0, NoLatency, NoGPU, Queue(TRUE, 1500000000), NoAlgorithm),
      Policy("StatefulSet", 1, 4, 0, NoLatency, NoGPU, Queue(TRUE, 2147483647), NoAlgorithm) }

\* passes on policies with int32 values far from 0
InitWide ==
    /\ binary = "pkg"
    /\ policy \in {p \in [Keys -> WidePolicies \cup {NoPolicy}] :
                      p["default/a"] # NoPolicy /\ p["default/b"] = NoPolicy}
    /\ registry = DefaultRegistry
    /\ InitCommon
    /\ webhook = NoRequest

NextWide == passes < MaxWidePasses /\ \E k \in Keys : Reconcile(k)

SpecWide == InitWide /\ [][NextWide]_vars

\* policies whose only signal is the request queue depth
QueuePolicies ==
    {Policy("Deployment", 1, 4, 150, NoLatency, NoGPU, Queue(TRUE, targetDepth), alg) :
        targetDepth \in {1, 2},
        alg \in {NoAlgorithm, Algorithm("AverageRatio", Frac(1, 10), <<>>)}}

\* the time between two passes; lastPass keeps the pass that ended before
Wait ==
    /\ now < MaxTicks * TickSeconds
    /\ now' = now + TickSeconds
    /\ UNCHANGED <<binary, policy, status, target, LastScaleTime, lastScaleTime, registry,
                   events, written, passes, lastPass, lastRegister, webhook, threads, lastCalculate>>

\* passes of pkg/controller on a queue-depth policy, cooldowns elapsing
\* between them
InitQueue ==
    /\ binary = "pkg"
    /\ policy \in {p \in [Keys -> QueuePolicies \cup {NoPolicy}] :
                      p["default/a"] # NoPolicy /\ p["default/b"] = NoPolicy}
    /\ registry = DefaultRegistry
    /\ InitCommon
    /\ webhook = NoRequest

NextQueue ==
    \/ passes < MaxQueuePasses /\ Reconcile("default/a")
    \/ Wait

SpecQueue == InitQueue /\ [][NextQueue]_vars

\* one policy that is updated, deleted and created again between the passes
\* of pkg/controller
InitLifecycle ==
    /\ binary = "pkg"
    /\ policy \in {p \in [Keys -> LifecyclePolicies \cup {NoPolicy}] :
                      p["default/a"] # NoPolicy /\ p["default/b"] = NoPolicy}
    /\ registry = DefaultRegistry
    /\ InitCommon
    /\ webhook = NoRequest

NextLifecycle ==
    \/ passes < MaxLifecyclePasses /\ Reconcile("default/a")
    \/ UpdatePolicy("default/a")
    \/ DeletePolicy("default/a")
    \/ CreatePolicy("default/a")
    \/ Tick

SpecLifecycle == InitLifecycle /\ [][NextLifecycle]_vars

\* the registry alone: Register calls on a new registry and on the default one
InitRegistry ==
    /\ binary = "pkg"
    /\ policy = [k \in Keys |-> NoPolicy]
    /\ registry \in {NewRegistry, RegistryAfterInit}
    /\ InitCommon
    /\ webhook = NoRequest

NextRegistry == RegisterCall

SpecRegistry == InitRegistry /\ [][NextRegistry]_vars

\* the algorithms alone: calls of Calculate and ComputeScale
NextCalculate == CalculateCall

SpecCalculate == InitRegistry /\ [][NextCalculate]_vars

\* the registry under two goroutines that each call Register once
NextConcurrentRegister ==
    \E t \in Threads : RegisterEnter(t) \/ RegisterLock(t) \/ RegisterStore(t)

SpecConcurrentRegister == InitRegistry /\ [][NextConcurrentRegister]_vars

\* two workers, each running passes of its own policy, and the clock
InitLedger ==
    /\ binary \in {"pkg", "legacy"}
    /\ policy \in {[k \in Keys |-> pol] : pol \in LifecyclePolicies}
    /\ registry = DefaultRegistry
    /\ InitCommon
    /\ webhook = NoRequest

NextLedger ==
    \/ \E t \in Threads :
          \/ CooldownReadBegin(t)
          \/ CooldownReadEnd(t)
          \/ CooldownWriteBegin(t)
          \/ CooldownWriteEnd(t)
    \/ Tick

SpecLedger == InitLedger /\ [][NextLedger]_vars

\* admission alone: one object is created and then updated unchanged
InitWebhook ==
    /\ binary = "pkg"
    /\ policy = [k \in Keys |-> NoPolicy]
    /\ registry = DefaultRegistry
    /\ InitCommon
    /\ target = NilReplicas
    /\ webhook \in {[NoRequest EXCEPT !.stage = "submitted", !.obj = o, !.before = o] :
                       o \in WebhookObjects}

NextWebhook == Default \/ ValidateCreate \/ ValidateUpdate

SpecWebhook == InitWebhook /\ [][NextWebhook]_vars

----------------------------------------------------------------------------
(* Properties of the replica write *)

\* the stages of a pass that computed a desired replica count
Computed == {"cooldown", "scaleFailed", "done"}

\* C1: a replica count a pass of pkg/controller writes to the target lies
\* between the policy's minReplicas (0 read as 1) and maxReplicas, whatever
\* the current count and the signal snapshot, the unknown-algorithm fallback
\* included
C1_WrittenWithinBounds ==
    lastPass.wrote =>
        /\ EffectiveMin(policy[lastPass.key]) <= target
        /\ target <= policy[lastPass.key].MaxReplicas

\* the fallback algorithm scaled past maxReplicas and maxReplicas was written
C1_Witness ==
    /\ lastPass.wrote
    /\ lastPass.notFound
    /\ target = policy[lastPass.key].MaxReplicas
    /\ lastPass.currentReplicas * 2 > policy[lastPass.key].MaxReplicas

\* C2: a pass writes only when the policy has no ledger entry or the entry
\* is at least the effective cooldown old, so two successful writes for one
\* key are at least the effective cooldown apart
C2_WritesCooldownApart ==
    lastPass.wrote =>
        LET cooldown == EffectiveCooldown(policy[lastPass.key])
        IN  /\ lastPass.entry = NoEntry \/ now - lastPass.entry >= cooldown
            /\ lastPass.lastWrite = NoEntry \/ now - lastPass.lastWrite >= cooldown

\* a second write for the key, after the ledger entry of the first expired
C2_Witness ==
    /\ lastPass.wrote
    /\ lastPass.lastWrite # NoEntry
    /\ lastPass.entry = lastPass.lastWrite
    /\ now > lastPass.lastWrite

\* C3: the cooldown ledger of a policy changes only in a pass that sent a
\* replica update to the target and saw it succeed
C3_LedgerOnlyOnWrite ==
    [][(LastScaleTime' # LastScaleTime \/ lastScaleTime' # lastScaleTime)
          => lastPass'.wrote]_vars

\* C4: a pass that the cooldown keeps from writing still leaves its
\* desiredReplicas in the stored status
C4_CooldownPassRecordsDesired ==
    lastPass.stage = "cooldown" =>
        /\ ~lastPass.updateSent
        /\ status[lastPass.key].DesiredReplicas = lastPass.desiredReplicas

\* C10: a replica write that finds the workload already at the count to set
\* sends no update and reports no error
C10_NoUpdateWhenAlreadySet ==
    (lastPass.scaling /\ ~lastPass.scaleGetFails
        /\ lastPass.atWrite = lastPass.desiredReplicas)
    => ~lastPass.updateSent /\ ~lastPass.scaleErr

\* C8: a policy whose algorithm stays unregistered enters AlgorithmValid =
\* (False, UnknownAlgorithm) once, so at most one UnknownAlgorithm event is
\* recorded for it, failed status updates included
C8_OneEventPerTransition ==
    \A k \in Keys : events[k] <= 1

----------------------------------------------------------------------------
(* Properties of the algorithms *)

\* C5: when the summary ratio r of the algorithm a pass used satisfies
\* |r - 1| <= tolerance, the desired count is the current count clamped to
\* [min, max] and the reason is "within tolerance"; a current count inside
\* the bounds then gets no replica update
C5_DeadbandKeepsCurrent ==
    LET p   == lastPass
        pol == policy[p.key]
        r   == IF p.algorithmUsed = "MaxRatio" THEN MaxRatioSummary(p.ratios)
               ELSE IF p.algorithmUsed = "AverageRatio" THEN AverageRatioSummary(p.ratios)
               ELSE WeightedRatioSummary(p.ratios, p.weights)
        lo  == EffectiveMin(pol)
        hi  == pol.MaxReplicas
        kept == IF p.currentReplicas < lo THEN lo
                ELSE IF p.currentReplicas > hi THEN hi ELSE p.currentReplicas
        between == IF r.n >= r.d
                   THEN (r.n - r.d) * p.tolerance.d <= p.tolerance.n * r.d
                   ELSE (r.d - r.n) * p.tolerance.d <= p.tolerance.n * r.d
    IN  (/\ p.impl = "pkg"
         /\ p.stage \in Computed
         /\ p.ratios # <<>>
         /\ p.algorithmUsed = "WeightedRatio" => TotalWeightFrom(p.ratios, p.weights, 1) > 0
         /\ r.d > 0
         /\ between)
        => /\ p.desiredReplicas = kept
           /\ p.reason = "within tolerance"
           /\ (lo <= p.currentReplicas /\ p.currentReplicas <= hi) => ~p.updateSent

\* the weighted ratio of two signals is exactly 1 under tolerance 0 and
\* nothing is written
C5_Witness ==
    /\ lastPass.stage = "done"
    /\ lastPass.reason = "within tolerance"
    /\ lastPass.algorithmUsed = "WeightedRatio"
    /\ lastPass.tolerance = Frac(0, 1)
    /\ lastPass.desiredReplicas = lastPass.currentReplicas
    /\ ~lastPass.updateSent
    /\ Len(lastPass.ratios) = 2

\* C6: every exit of ComputeScale of the three algorithms (no ratios, total
\* weight zero, within tolerance, scaled) yields min <= desired <= max,
\* also when the current count is outside [min, max]
C6_EveryExitClamped ==
    (lastPass.impl = "pkg" /\ lastPass.stage \in Computed)
    => /\ EffectiveMin(policy[lastPass.key]) <= lastPass.desiredReplicas
       /\ lastPass.desiredReplicas <= policy[lastPass.key].MaxReplicas
       /\ lastPass.reason \in
            {"no metrics available", "total weight is zero", "within tolerance",
             "scaled based on max ratio", "scaled based on average ratio",
             "scaled based on weighted ratio"}

\* the exit for total weight zero lifts a current count of 0 to min
C6_Witness ==
    /\ lastPass.reason = "total weight is zero"
    /\ lastPass.currentReplicas = 0
    /\ lastPass.desiredReplicas = EffectiveMin(policy[lastPass.key])

\* C7: a pass in which one signal is disabled or its fetches fail, and
\* another signal yields a ratio, has the ratio list, the desired count, the
\* reason and the write decision of the pass for the policy that never
\* configured the signal
C7_DegradedSignalAsIfAbsent ==
    LET p   == lastPass
        pol == policy[p.key]
        Degraded(s) ==
            IF s = "latency"
            THEN /\ pol.Latency.Set
                 /\ \/ ~pol.Latency.Enabled
                    \/ /\ pol.Latency.TargetP99Ms > 0 \/ pol.Latency.TargetP95Ms > 0
                       /\ p.out.p99 = FetchErr
                       /\ p.out.p95 = FetchErr
            ELSE IF s = "gpu"
            THEN /\ pol.GPUUtilization.Set
                 /\ ~pol.GPUUtilization.Enabled \/ p.out.gpu = FetchErr
            ELSE /\ pol.RequestQueueDepth.Set
                 /\ ~pol.RequestQueueDepth.Enabled \/ p.out.queue = FetchErr
        Without(s) ==
            IF s = "latency" THEN [pol EXCEPT !.Latency = NoLatency]
            ELSE IF s = "gpu" THEN [pol EXCEPT !.GPUUtilization = NoGPU]
            ELSE [pol EXCEPT !.RequestQueueDepth = NoQueue]
        Run(q) == calculateDesiredReplicas(registry, p.key, q, p.currentReplicas,
                                           fetchMetrics(q, p.out), p.conv)
        Writes(q, desiredReplicas) ==
            /\ ~InCooldown(p.entry, q, now, desiredReplicas, p.currentReplicas)
            /\ desiredReplicas # p.currentReplicas
    IN  (p.impl = "pkg" /\ p.stage \in Computed)
        => \A s \in {"latency", "gpu", "queue"} :
              (Degraded(s) /\ p.ratios # <<>>)
              => /\ Run(Without(s)).ratios = p.ratios
                 /\ Run(Without(s)).desiredReplicas = p.desiredReplicas
                 /\ Run(Without(s)).reason = p.reason
                 /\ Writes(Without(s), Run(Without(s)).desiredReplicas) = p.scaling

\* the GPU fetch failed, both latency fetches answered, and the pass scaled
C7_Witness ==
    /\ lastPass.stage = "done"
    /\ policy[lastPass.key].GPUUtilization.Enabled
    /\ lastPass.out.gpu = FetchErr
    /\ Len(lastPass.ratios) = 2
    /\ lastPass.wrote

\* C9: a pass never changes the registry, the pass of a WeightedRatio policy
\* with weights of its own included, and every pass that uses WeightedRatio
\* computes with its policy's weights or, without them, the registered ones
C9_RegisteredWeightsUntouched ==
    [][/\ registry' = registry
       /\ (lastPass'.stage \in Computed /\ lastPass'.algorithmUsed = "WeightedRatio")
          => lastPass'.weights =
                IF Len(policy[lastPass'.key].Algorithm.Weights) > 0
                THEN policy[lastPass'.key].Algorithm.Weights
                ELSE Get(registry, "WeightedRatio").Weights]_vars

\* the policy without weights computes with the registered weights after a
\* pass of the policy with weights of its own
C9_Witness ==
    /\ passes = MaxSharedPasses
    /\ status["default/a"].LastAlgorithm = "WeightedRatio"
    /\ lastPass.key = "default/b"
    /\ lastPass.stage = "done"
    /\ lastPass.weights = <<1, 3>>
    /\ Get(registry, "WeightedRatio").Weights = <<1, 3>>

----------------------------------------------------------------------------
(* Properties of the registry *)

\* C11: a Register call given nil, a name that is empty once its whitespace
\* is trimmed, or a name already registered fails and leaves the map as it
\* was, the first registration in place; any other call, a name that differs
\* from a registered one in letter case included, adds the algorithm under
\* its trimmed name
C11_FailedRegisterKeepsMap ==
    lastRegister.called =>
        LET a      == lastRegister.algorithm
            before == lastRegister.before
            NotBlank(c) == c # 32
            \* the names handed to Register have no inner whitespace
            name   == SelectSeq(a.Name, NotBlank)
        IN  /\ a.Nil => lastRegister.err # "" /\ registry = before
            /\ (~a.Nil /\ name = <<>>)
               => lastRegister.err = "ErrInvalidAlgorithmName" /\ registry = before
            /\ (~a.Nil /\ name # <<>> /\ name \in DOMAIN before)
               => lastRegister.err = "ErrAlgorithmAlreadyRegistered" /\ registry = before
            /\ (~a.Nil /\ name # <<>> /\ name \notin DOMAIN before)
               => /\ lastRegister.err = ""
                  /\ DOMAIN registry = DOMAIN before \cup {name}
                  /\ registry[name] = a
                  /\ \A n \in DOMAIN before : registry[n] = before[n]

\* " A" is refused as a duplicate of "A" while "a" is registered too, and
\* the instance registered first is still the one under "A"
C11_Witness ==
    /\ lastRegister.called
    /\ lastRegister.err = "ErrAlgorithmAlreadyRegistered"
    /\ lastRegister.algorithm.Name = <<32, 65>>
    /\ <<97>> \in DOMAIN registry
    /\ registry[<<65>>].Tolerance # lastRegister.algorithm.Tolerance

\* C12: List is strictly ascending in byte order and holds exactly the names
\* for which Has is true and Get succeeds; the registry init() leaves holds
\* MaxRatio, AverageRatio and WeightedRatio with tolerance 0.1
C12_ListSortedAndExact ==
    LET l     == List(registry)
        names == RegisterNames \cup {NameBytes.MaxRatio, NameBytes.AverageRatio,
                                     NameBytes.WeightedRatio}
    IN  /\ \A i, j \in 1..Len(l) : i < j => LexLess(l[i], l[j])
        /\ \A n \in names :
              /\ Has(registry, n) <=> \E i \in 1..Len(l) : l[i] = n
              /\ Has(registry, n) <=> ~GetFails(registry, n)
        /\ \A i \in 1..Len(l) : l[i] \in names
        /\ (~lastRegister.called /\ registry # NewRegistry)
           => /\ DOMAIN registry = {NameBytes.MaxRatio, NameBytes.AverageRatio,
                                    NameBytes.WeightedRatio}
              /\ \A n \in DOMAIN registry :
                    registry[n].Name = n /\ registry[n].Tolerance = Frac(1, 10)

\* "AA" and "B" joined the three built-ins
C12_Witness ==
    /\ lastRegister.called
    /\ Len(List(registry)) = 5
    /\ {<<65, 65>>, <<66>>, NameBytes.MaxRatio} \subseteq DOMAIN registry

----------------------------------------------------------------------------
(* Properties of the algorithm choice *)

\* C13: a pass whose policy names an algorithm the registry does not have
\* computes the desired count with MaxRatio, reports MaxRatio as the
\* algorithm used, flags the lookup failure and (when the status update is
\* served) leaves AlgorithmValid = False with reason UnknownAlgorithm and the
\* fallback name in the message; a pass whose policy names no algorithm uses
\* MaxRatio, flags nothing and sets no AlgorithmValid condition
C13_UnknownAlgorithmFallsBack ==
    LET p     == lastPass
        pol   == policy[p.key]
        name  == IF pol.Algorithm.Set THEN pol.Algorithm.Name ELSE ""
        input == [CurrentReplicas |-> p.currentReplicas,
                  MinReplicas     |-> EffectiveMin(pol),
                  MaxReplicas     |-> pol.MaxReplicas,
                  MetricRatios    |-> p.ratios,
                  Tolerance       |-> p.tolerance]
        byMaxRatio == MaxRatioComputeScale(input, p.conv)
        cond  == status[p.key].Conditions[ConditionTypeAlgorithmValid]
    IN  (p.impl = "pkg" /\ p.stage \in Computed)
        => /\ (name # "" /\ ~Has(registry, name))
              => /\ p.algorithmUsed = "MaxRatio"
                 /\ p.notFound
                 /\ p.desiredReplicas = byMaxRatio.DesiredReplicas
                 /\ p.reason = byMaxRatio.Reason
                 /\ p.statusOK
                    => cond = Condition(ConditionTypeAlgorithmValid, "False",
                                        "UnknownAlgorithm", "MaxRatio")
           /\ name = ""
              => /\ p.algorithmUsed = "MaxRatio"
                 /\ ~p.notFound
                 /\ p.desiredReplicas = byMaxRatio.DesiredReplicas
                 /\ cond = NoCondition(ConditionTypeAlgorithmValid)

\* the policy names "NotReal", the latency ratio is 2 and one replica becomes
\* two by MaxRatio, with the condition stored
C13_Witness ==
    /\ lastPass.impl = "pkg"
    /\ lastPass.stage = "done"
    /\ policy[lastPass.key].Algorithm.Name = "NotReal"
    /\ lastPass.notFound
    /\ lastPass.algorithmUsed = "MaxRatio"
    /\ lastPass.currentReplicas = 1
    /\ lastPass.desiredReplicas = 2
    /\ lastPass.reason = "scaled based on max ratio"
    /\ lastPass.statusOK
    /\ hasCondition(status[lastPass.key], ConditionTypeAlgorithmValid, "False",
                    ReasonUnknownAlgorithm)

\* C14: the tolerance a pass hands to the algorithm is the tolerance of the
\* policy's algorithm block when the manifest gives one (0 included) and 0.1
\* otherwise, also for a block that gives a name and no tolerance
C14_ToleranceDefaultsWhenAbsent ==
    LET p   == lastPass
        alg == policy[p.key].Algorithm
    IN  (p.impl = "pkg" /\ p.stage \in Computed)
        => p.tolerance = IF alg.Set /\ alg.InManifest THEN alg.Tolerance
                         ELSE Frac(1, 10)

\* the tolerances an algorithm instance is built with
EmbeddedTolerances == {Frac(0, 1), Frac(1, 10), Frac(1, 2)}

\* C15: the result of a pass is the result every instance of the same
\* algorithm returns for the same input, whatever tolerance the instance was
\* built with; with input tolerance 0 a summary ratio other than 1 is never
\* "within tolerance"
C15_ToleranceFromInputOnly ==
    LET p     == lastPass
        pol   == policy[p.key]
        input == [CurrentReplicas |-> p.currentReplicas,
                  MinReplicas     |-> EffectiveMin(pol),
                  MaxReplicas     |-> pol.MaxReplicas,
                  MetricRatios    |-> p.ratios,
                  Tolerance       |-> p.tolerance]
        r     == IF p.algorithmUsed = "MaxRatio" THEN MaxRatioSummary(p.ratios)
                 ELSE IF p.algorithmUsed = "AverageRatio" THEN AverageRatioSummary(p.ratios)
                 ELSE WeightedRatioSummary(p.ratios, p.weights)
    IN  (p.impl = "pkg" /\ p.stage \in Computed)
        => /\ \A tol \in EmbeddedTolerances :
                 LET a == [Name |-> p.algorithmUsed, Tolerance |-> tol,
                           Weights |-> p.weights]
                     res == ComputeScale(a, input, p.conv)
                 IN  /\ res.DesiredReplicas = p.desiredReplicas
                     /\ res.Reason = p.reason
           /\ (/\ p.ratios # <<>>
               /\ p.algorithmUsed = "WeightedRatio"
                     => TotalWeightFrom(p.ratios, p.weights, 1) > 0
               /\ r.d > 0
               /\ r.n # r.d
               /\ p.tolerance.n = 0)
              => p.reason # "within tolerance"

\* the registered WeightedRatio was built with tolerance 0.5, the policy sets
\* tolerance 0, the weighted ratio is 2/3 and three replicas become two
C15_Witness ==
    /\ lastPass.impl = "pkg"
    /\ lastPass.stage \in Computed
    /\ lastPass.algorithmUsed = "WeightedRatio"
    /\ registry["WeightedRatio"].Tolerance = Frac(1, 2)
    /\ lastPass.tolerance = Frac(0, 1)
    /\ Len(lastPass.ratios) = 2
    /\ lastPass.weights = <<0, 2>>
    /\ lastPass.ratios[2] = Frac(4, 6)
    /\ lastPass.currentReplicas = 3
    /\ lastPass.desiredReplicas = 2
    /\ lastPass.reason = "scaled based on weighted ratio"

----------------------------------------------------------------------------
(* Properties of the summary ratios *)

\* C16: with MaxRatio, when the largest metric ratio m is below
\* 1 - tolerance, the desired count is ceil(current * m) clamped to
\* [min, max]: the summary ratio is the largest ratio, with no floor at 1
C16_MaxRatioScalesDown ==
    LET p   == lastPass
        pol == policy[p.key]
        m   == MaxOf(Tail(p.ratios), Head(p.ratios))
        lo  == EffectiveMin(pol)
        hi  == pol.MaxReplicas
        raw == CeilMul(p.currentReplicas, m, p.conv)
    IN  (/\ p.impl = "pkg"
         /\ p.stage \in Computed
         /\ p.algorithmUsed = "MaxRatio"
         /\ p.ratios # <<>>
         /\ ~NonFinite(p.ratios)
         /\ FracGT(FracSub(One, p.tolerance), m))
        => p.desiredReplicas = IF raw < lo THEN lo ELSE IF raw > hi THEN hi ELSE raw

\* C17: AverageRatio on a non-empty ratio list takes the arithmetic mean r of
\* the ratios; outside the deadband the desired count is ceil(current * r)
\* clamped to [min, max] with reason "scaled based on average ratio", so a
\* mean below 1 - tolerance never raises the count above max(current, min)
C17_AverageRatioMean ==
    LET p   == lastPass
        pol == policy[p.key]
        k   == Len(p.ratios)
        sum == SumOf(p.ratios)
        r   == Frac(sum.n, sum.d * k)
        lo  == EffectiveMin(pol)
        hi  == pol.MaxReplicas
        raw == CeilMul(p.currentReplicas, r, p.conv)
        below == r.d > 0 /\ r.n * p.tolerance.d < (p.tolerance.d - p.tolerance.n) * r.d
        above == r.d > 0 /\ r.n * p.tolerance.d > (p.tolerance.d + p.tolerance.n) * r.d
    IN  (/\ p.impl = "pkg"
         /\ p.stage \in Computed
         /\ p.algorithmUsed = "AverageRatio"
         /\ p.ratios # <<>>
         /\ below \/ above \/ r.d = 0)
        => /\ p.desiredReplicas = IF raw < lo THEN lo ELSE IF raw > hi THEN hi ELSE raw
           /\ p.reason = "scaled based on average ratio"
           /\ below => \/ p.desiredReplicas <= p.currentReplicas
                       \/ p.desiredReplicas = lo

\* the only ratio is 0.5: three replicas of the StatefulSet become two, the
\* policy's minimum
C17_Witness ==
    /\ lastPass.impl = "pkg"
    /\ lastPass.stage = "done"
    /\ lastPass.algorithmUsed = "AverageRatio"
    /\ lastPass.ratios = <<Frac(50, 100)>>
    /\ lastPass.currentReplicas = 3
    /\ lastPass.desiredReplicas = 2
    /\ lastPass.reason = "scaled based on average ratio"
    /\ lastPass.wrote
    /\ target = 2

\* C18: WeightedRatio on a non-empty ratio list weighs ratio i by
\* weights[i], or by 1 past the end of the weights. A total weight of 0
\* returns the clamped current count with reason "total weight is zero" and
\* nothing is divided; otherwise r = sum(ratio_i * w_i) / sum(w_i) decides as
\* for the other algorithms, and with all weights equal (their total not 0,
\* the case before) the desired count is that of AverageRatio
C18_WeightedRatioSum ==
    LET p   == lastPass
        pol == policy[p.key]
        k   == Len(p.ratios)
        w(i) == IF i <= Len(p.weights) THEN p.weights[i] ELSE 1
        tw[i \in 0..k] == IF i = 0 THEN 0 ELSE tw[i - 1] + w(i)
        ws[i \in 0..k] ==
            IF i = 0 THEN Frac(0, 1)
            ELSE Frac(ws[i - 1].n * p.ratios[i].d + p.ratios[i].n * w(i) * ws[i - 1].d,
                      ws[i - 1].d * p.ratios[i].d)
        r   == Frac(ws[k].n, ws[k].d * tw[k])
        lo  == EffectiveMin(pol)
        hi  == pol.MaxReplicas
        clamp(d) == IF d < lo THEN lo ELSE IF d > hi THEN hi ELSE d
        inside == /\ r.d > 0
                  /\ r.n * p.tolerance.d >= (p.tolerance.d - p.tolerance.n) * r.d
                  /\ r.n * p.tolerance.d <= (p.tolerance.d + p.tolerance.n) * r.d
        input == [CurrentReplicas |-> p.currentReplicas, MinReplicas |-> lo,
                  MaxReplicas |-> hi, MetricRatios |-> p.ratios,
                  Tolerance |-> p.tolerance]
    IN  (/\ p.impl = "pkg"
         /\ p.stage \in Computed
         /\ p.algorithmUsed = "WeightedRatio"
         /\ p.ratios # <<>>)
        => /\ tw[k] = 0
              => /\ p.desiredReplicas = clamp(p.currentReplicas)
                 /\ p.reason = "total weight is zero"
           /\ (tw[k] # 0 /\ inside)
              => /\ p.desiredReplicas = clamp(p.currentReplicas)
                 /\ p.reason = "within tolerance"
           /\ (tw[k] # 0 /\ ~inside)
              => /\ p.desiredReplicas = clamp(CeilMul(p.currentReplicas, r, p.conv))
                 /\ p.reason = "scaled based on weighted ratio"
           /\ (tw[k] # 0 /\ \A i \in 1..k : w(i) = w(1))
              => p.desiredReplicas =
                    AverageRatioComputeScale(input, p.conv).DesiredReplicas

\* registered weights 1 and 3 on ratios 0.5 and 2: r = 6.5 / 4 and one
\* replica becomes two
C18_Witness ==
    /\ lastPass.impl = "pkg"
    /\ lastPass.stage = "done"
    /\ lastPass.algorithmUsed = "WeightedRatio"
    /\ lastPass.weights = <<1, 3>>
    /\ lastPass.ratios = <<Frac(50, 100), Frac(160, 80)>>
    /\ lastPass.currentReplicas = 1
    /\ lastPass.desiredReplicas = 2
    /\ lastPass.reason = "scaled based on weighted ratio"

\* C19: a WeightedRatio pass weighs the P99 latency ratio by weights[0], the
\* P95 latency ratio by weights[1], the GPU ratio by weights[2] and the queue
\* ratio by weights[3] (1 where the weights end), whichever of the four
\* signals have a ratio in the pass
C19_WeightsBoundToSignals ==
    LET p   == lastPass
        pol == policy[p.key]
        cm  == fetchMetrics(pol, p.out)
        W(j) == IF j <= Len(p.weights) THEN p.weights[j] ELSE 1
        bySignal ==
            (IF FetchedP99(pol) /\ cm.LatencyP99Ms > 0 THEN <<W(1)>> ELSE <<>>)
            \o (IF FetchedP95(pol) /\ cm.LatencyP95Ms > 0 THEN <<W(2)>> ELSE <<>>)
            \o (IF FetchedGPU(pol) /\ pol.GPUUtilization.TargetPercentage > 0
                   /\ cm.GPUUtilizationPercent > 0 THEN <<W(3)>> ELSE <<>>)
            \o (IF FetchedQueue(pol) /\ pol.RequestQueueDepth.TargetDepth > 0
                   /\ cm.RequestQueueDepth > 0 THEN <<W(4)>> ELSE <<>>)
        input == [CurrentReplicas |-> p.currentReplicas,
                  MinReplicas     |-> EffectiveMin(pol),
                  MaxReplicas     |-> pol.MaxReplicas,
                  MetricRatios    |-> p.ratios,
                  Tolerance       |-> p.tolerance]
        expected == WeightedRatioComputeScale(
                        [Name |-> "WeightedRatio", Tolerance |-> p.tolerance,
                         Weights |-> bySignal], input, p.conv)
    IN  (/\ p.impl = "pkg"
         /\ p.stage \in Computed
         /\ p.algorithmUsed = "WeightedRatio"
         /\ p.ratios # <<>>)
        => /\ Len(bySignal) = Len(p.ratios)
           /\ p.desiredReplicas = expected.DesiredReplicas
           /\ p.reason = expected.Reason

----------------------------------------------------------------------------
(* Properties of a failed replica write *)

\* C20: a pass whose replica write fails leaves the Scaling condition False
\* with reason ScaleFailed (when the status update is served), records a
\* scaling-failed event for the policy and asks to be requeued
C20_ScaleFailureVisible ==
    LET p == lastPass
    IN  (p.impl = "pkg" /\ p.stage = "scaleFailed")
        => /\ p.statusOK
              => hasCondition(status[p.key], ConditionTypeScaling, "False", "ScaleFailed")
           /\ "ScalingFailed" \in p.recorded
           /\ p.requeueAfter > 0

----------------------------------------------------------------------------
(* Properties of the Ready and Scaling conditions *)

\* C21: a pass whose replica read fails writes no replica count and (when
\* the status update is served) leaves Ready = False with reason
\* UnsupportedKind when the kind of the target is neither Deployment nor
\* StatefulSet, and with reason TargetNotFound otherwise
C21_ReadFailureKindReported ==
    LET p    == lastPass
        cond == status[p.key].Conditions[ConditionTypeReady]
    IN  (p.impl = "pkg" /\ p.stage = "readFailed")
        => /\ ~p.updateSent
           /\ p.statusOK
              => /\ cond.Status = "False"
                 /\ cond.Reason = IF policy[p.key].Kind \in {"Deployment", "StatefulSet"}
                                  THEN "TargetNotFound" ELSE "UnsupportedKind"

----------------------------------------------------------------------------
(* Properties of the ratio list *)

C26_QueueRatioNeedsReplicas ==
    LET p    == lastPass
        pol  == policy[p.key]
        ms(v) == IF v = FetchErr THEN 0 ELSE v \div 1000
        gpu  == IF p.out.gpu = FetchErr THEN 0 ELSE p.out.gpu \div 10
        q    == IF p.out.queue = FetchErr THEN 0 ELSE p.out.queue
        lat  == pol.Latency.Set /\ pol.Latency.Enabled
        others ==
            (IF lat /\ pol.Latency.TargetP99Ms > 0 /\ ms(p.out.p99) > 0 THEN 1 ELSE 0)
            + (IF lat /\ pol.Latency.TargetP95Ms > 0 /\ ms(p.out.p95) > 0 THEN 1 ELSE 0)
            + (IF /\ pol.GPUUtilization.Set /\ pol.GPUUtilization.Enabled
                  /\ pol.GPUUtilization.TargetPercentage > 0 /\ gpu > 0 THEN 1 ELSE 0)
    IN  (p.impl = "pkg" /\ p.stage \in Computed)
        => /\ Len(p.ratios) = others + 1
              <=> /\ pol.RequestQueueDepth.Set /\ pol.RequestQueueDepth.Enabled
                  /\ q > 0
                  /\ pol.RequestQueueDepth.TargetDepth > 0
                  /\ p.currentReplicas > 0
           /\ \A i \in 1..Len(p.ratios) : p.ratios[i].d # 0

\* C27: every element of the ratio list of a pass is strictly positive,
\* whatever int32 values the signals, the targets and the current replica
\* count have, also when the 32-bit product targetDepth * currentReplicas
\* wraps around
C27_RatiosPositive ==
    LET p == lastPass
    IN  (p.impl = "pkg" /\ p.stage \in Computed)
        => \A i \in 1..Len(p.ratios) : p.ratios[i].n > 0 /\ p.ratios[i].d >= 0

\* C28: the failure of a fetch never ends a pass. A pass that read the
\* replica count and whose enabled signals all failed to fetch goes on with an
\* empty ratio list: the desired count is clamp(current) with reason "no
\* metrics available", it requeues after the default interval, and when
\* current lies within the bounds it sends no replica write and, its status
\* updates stored, ends with Ready = True
C28_FetchFailuresTolerated ==
    LET p    == lastPass
        pol  == policy[p.key]
        lo   == EffectiveMin(pol)
        hi   == pol.MaxReplicas
        c    == p.currentReplicas
        kept == IF c < lo THEN lo ELSE IF c > hi THEN hi ELSE c
        allFail == /\ p.out.p99 = FetchErr /\ p.out.p95 = FetchErr
                   /\ p.out.gpu = FetchErr /\ p.out.queue = FetchErr
        ready == status[p.key].Conditions[ConditionTypeReady]
    IN  (/\ p.impl = "pkg"
         /\ p.stage # "notFound"
         /\ pol.Kind \in {"Deployment", "StatefulSet"}
         /\ ~p.getFails
         /\ allFail)
        => /\ p.stage \in Computed
           /\ p.ratios = <<>>
           /\ p.desiredReplicas = kept
           /\ p.reason = "no metrics available"
           /\ p.requeueAfter = DefaultRequeueInterval
           /\ (lo <= c /\ c <= hi)
              => /\ ~p.updateSent
                 /\ p.stage = "done"
                 /\ CurrentOf(target) = c
                 /\ p.statusOK => ready.Status = "True" /\ ready.Reason = "Ready"

\* C28 witness: both latency fetches and the GPU fetch failed, three replicas
\* stayed three and the pass ended with Ready = True
C28_Witness ==
    /\ lastPass.impl = "pkg"
    /\ lastPass.stage = "done"
    /\ ~lastPass.getFails
    /\ policy[lastPass.key].GPUUtilization.Enabled
    /\ policy[lastPass.key].Latency.TargetP95Ms > 0
    /\ lastPass.out = [p99 |-> FetchErr, p95 |-> FetchErr, gpu |-> FetchErr, queue |-> FetchErr]
    /\ lastPass.reason = "no metrics available"
    /\ lastPass.currentReplicas = 3
    /\ target = 3
    /\ status[lastPass.key].Conditions[ConditionTypeReady].Status = "True"

----------------------------------------------------------------------------
(* Properties of MaxRatio's floor *)

----------------------------------------------------------------------------
(* Properties of the stored desired count *)

\* C23: after every pass that completes its status update, the stored
\* status.desiredReplicas lies between minReplicas (0 read as 1) and
\* maxReplicas, whatever registered algorithm computed it
C23_DesiredWithinBounds ==
    LET p   == lastPass
        pol == policy[p.key]
    IN  (p.impl = "pkg" /\ p.stage = "done" /\ p.statusOK)
        => /\ status[p.key].DesiredReplicas >= EffectiveMin(pol)
           /\ status[p.key].DesiredReplicas <= pol.MaxReplicas

\* C29: the Scaling condition is True only momentarily. It becomes True only
\* in a pass whose replica write succeeded, and after a pass that performs no
\* write (desired = current with its status updates stored, or skipped by
\* the cooldown) it is not True
C29_ScalingMomentary ==
    /\ [][\A k \in Keys :
            (/\ status'[k].Conditions[ConditionTypeScaling].Status = "True"
             /\ status[k].Conditions[ConditionTypeScaling].Status # "True")
            => /\ lastPass'.key = k
               /\ lastPass'.stage = "done"
               /\ lastPass'.wrote
               /\ ~lastPass'.scaleErr]_vars
    /\ [](LET p == lastPass
          IN  (/\ p.impl = "pkg"
               /\ \/ p.stage = "cooldown"
                  \/ p.stage = "done" /\ ~p.scaling /\ p.statusOK)
              => status[p.key].Conditions[ConditionTypeScaling].Status # "True")

\* C30: after a pass, Ready = False only if that pass could not reach a
\* scaling decision: a pass that read the replica count and computed a
\* desired count, also one skipped by the cooldown and one whose replica
\* write failed, does not leave Ready = False behind when its status updates
\* are stored
C30_ReadyFalseOnlyWithoutDecision ==
    LET p == lastPass
    IN  (p.impl = "pkg" /\ p.stage \in Computed /\ p.statusOK)
        => status[p.key].Conditions[ConditionTypeReady].Status # "False"

----------------------------------------------------------------------------
(* Properties across policy updates and deletions *)

\* C31: after a pass that reached algorithm resolution and whose status
\* updates were stored, AlgorithmValid is False with reason UnknownAlgorithm
\* exactly when the policy, as it is now, names an algorithm the registry
\* does not have
C31_AlgorithmValidFollowsPolicy ==
    LET p    == lastPass
        pol  == policy[p.key]
        name == IF pol.Algorithm.Set THEN pol.Algorithm.Name ELSE ""
        cond == status[p.key].Conditions[ConditionTypeAlgorithmValid]
    IN  (p.impl = "pkg" /\ p.stage \in Computed /\ p.statusOK)
        => ((cond.Status = "False" /\ cond.Reason = ReasonUnknownAlgorithm)
            <=> (name # "" /\ name \notin DOMAIN registry))

----------------------------------------------------------------------------
(* Properties of admission *)

\* C22: an object that went through defaulting and passed validation has a
\* target name, kind Deployment or StatefulSet, 1 <= minReplicas <=
\* maxReplicas, cooldownPeriod > 0 and at least one enabled metric, every
\* enabled metric with a target in range (GPU in 1..100, queue depth >= 0,
\* latency with a positive P99 or P95 target); defaulting an object that
\* was defaulted before changes nothing
C22_AdmittedPolicyWellFormed ==
    LET o == webhook.obj
        m == o.Metrics
    IN  /\ webhook.stage = "admitted"
           => /\ o.TargetRef.Name # ""
              /\ o.TargetRef.Kind \in {"Deployment", "StatefulSet"}
              /\ 1 <= o.MinReplicas /\ o.MinReplicas <= o.MaxReplicas
              /\ o.CooldownPeriod > 0
              /\ \/ m.Latency.Set /\ m.Latency.Enabled
                 \/ m.GPUUtilization.Set /\ m.GPUUtilization.Enabled
                 \/ m.RequestQueueDepth.Set /\ m.RequestQueueDepth.Enabled
              /\ (m.Latency.Set /\ m.Latency.Enabled)
                 => (m.Latency.TargetP99Ms > 0 \/ m.Latency.TargetP95Ms > 0)
              /\ (m.GPUUtilization.Set /\ m.GPUUtilization.Enabled)
                 => (1 <= m.GPUUtilization.TargetPercentage
                     /\ m.GPUUtilization.TargetPercentage <= 100)
              /\ (m.RequestQueueDepth.Set /\ m.RequestQueueDepth.Enabled)
                 => m.RequestQueueDepth.TargetDepth >= 0
        /\ (webhook.stage = "defaulted" /\ webhook.round > 1)
           => webhook.obj = webhook.before

(* Properties of the order of writes within a pass *)

\* C32: in a pass that wrote the replica count, no status update of the
\* policy precedes the replica write, and no stored status of the pass
\* shows Scaling = True with reason Scaled while status.desiredReplicas
\* differs from the desired count of the pass
C32_StatusAfterReplicaWrite ==
    LET p == lastPass
    IN  (p.impl = "pkg" /\ p.stage = "done" /\ p.wrote)
        => /\ p.callsBeforeWrite = 0
           /\ \A i \in 1..Len(p.seen) :
                  LET c == p.seen[i].Conditions[ConditionTypeScaling]
                  IN  (c.Status = "True" /\ c.Reason = "Scaled")
                      => p.seen[i].DesiredReplicas = p.desiredReplicas

(* Properties of the cooldown ledger across deletions *)

\* C33: when a policy is created under a key whose deletion a pass has
\* observed as not-found, the ledger holds no entry for the key, so that the
\* new policy starts outside any cooldown
C33_RecreatedPolicyHasNoEntry ==
    [][\A k \in Keys :
          (policy[k] = NoPolicy /\ policy'[k] # NoPolicy
           /\ lastPass.key = k /\ lastPass.stage = "notFound")
          => LastScaleTime'[k] = NoEntry]_vars

(* Properties of what a pass returns to the framework *)

\* C34: a pass that found the policy requests a requeue after 30 s and
\* returns no error, whichever way it ended; a pass whose policy was not
\* found wrote nothing, updated no status and requested no requeue
C34_RequeueOnEveryPath ==
    LET p == lastPass
    IN  /\ p.stage \in {"readFailed", "cooldown", "scaleFailed", "done"}
           => (p.requeueAfter = 30 /\ ~p.returnedErr)
        /\ p.stage = "notFound"
           => (~p.wrote /\ ~p.updateSent /\ p.seen = <<>> /\ p.requeueAfter = 0
               /\ ~p.returnedErr)

(* Properties of concurrent callers *)

\* C35: when two goroutines have both returned from Register with
\* algorithms of the same name, exactly one call succeeded and the other
\* failed with ErrAlgorithmAlreadyRegistered, the registry holds the
\* algorithm of the call that succeeded, and no map read ran while another
\* goroutine was writing the map
C35_RegisterExclusive ==
    \A t, u \in Threads :
        LET a == threads.call[t]
            b == threads.call[u]
            name == TrimSpace(a.algorithm.Name)
        IN  (t # u /\ a.pc \in {"returned", "fatal"} /\ b.pc \in {"returned", "fatal"}
             /\ ~a.algorithm.Nil /\ ~b.algorithm.Nil
             /\ name # <<>> /\ name = TrimSpace(b.algorithm.Name))
            => /\ ~threads.raced
               /\ {a.err, b.err} = {"", "ErrAlgorithmAlreadyRegistered"}
               /\ a.err = "" => registry[name] = a.algorithm

\* C36: a worker that reads or writes the cooldown ledger holds the
\* ledger's lock while it does, and no ledger write runs at the same time
\* as another access to the ledger
C36_LedgerAccessLocked ==
    \A t \in Threads :
        /\ threads.pass[t].pc = "reading"
           => (t \in threads.lastScaleMutex.readers /\ ~threads.pass[t].dirty)
        /\ threads.pass[t].pc = "writing"
           => /\ threads.lastScaleMutex.writer = t
              /\ \A u \in Threads \ {t} : ~Accessing(u)
        /\ threads.pass[t].pc # "fatal"

(* Properties of the replica write under other writers *)

\* C37: when another writer changed the replica field between the pass's
\* read and its write, the write of the pass failed and the field still
\* holds the other writer's value
C37_WriteConflictsWithOtherWriter ==
    LET p == lastPass
    IN  (p.stage \in {"scaleFailed", "done"} /\ p.scaling /\ ~p.scaleGetFails
         /\ CurrentOf(p.atWrite) # p.currentReplicas)
        => (p.scaleErr /\ ~p.wrote /\ target = p.atWrite)

(* Properties of scaling on queue depth alone *)

\* C38: with queue depth the only signal, a pass that leaves the deadband
\* at total depth Q and target depth T computes clamp(ceil(Q / T), min,
\* max), whatever the current replica count; and once a pass has written
\* its count, the next pass that sees the same depth sends no replica
\* update
C38_QueueFixedPoint ==
    /\ [](LET p   == lastPass
              pol == policy[p.key]
          IN  (p.stage \in Computed /\ p.out.queue > 0 /\ p.ratios # <<>>
               /\ p.reason # "within tolerance")
              => p.desiredReplicas =
                    Clamp(CeilFrac(Frac(p.out.queue, pol.RequestQueueDepth.TargetDepth)),
                          pol.MinReplicas, pol.MaxReplicas))
    /\ [][(/\ lastPass.stage = "done" /\ lastPass.wrote
           /\ lastPass.out.queue > 0
           /\ target = lastPass.desiredReplicas
           /\ passes' = passes + 1
           /\ lastPass'.out.queue = lastPass.out.queue)
          => ~lastPass'.updateSent]_vars

(* Properties of the legacy Calculate *)

\* C39: for each built-in algorithm, Calculate returns the replica count
\* that ComputeScale returns on the same current/min/max/ratios with the
\* tolerance of the instance, also when currentReplicas lies outside
\* [min, max]
C39_CalculateAgreesWithComputeScale ==
    lastCalculate.called => lastCalculate.calculate = lastCalculate.computeScale

(* Properties of lookups after a registration *)

\* C40: after a Register call that returned nil, Has of the algorithm's
\* name is true and Get of the name returns the algorithm that was
\* registered, also for a name with leading or trailing whitespace
C40_RegisteredIsFound ==
    (lastRegister.called /\ lastRegister.err = "")
    => /\ Has(registry, lastRegister.algorithm.Name)
       /\ ~GetFails(registry, lastRegister.algorithm.Name)
       /\ Get(registry, lastRegister.algorithm.Name) = lastRegister.algorithm

====
